---- MODULE Spec2Model ----
(***************************************************************************)
(* Model of the Push 2 driver: the input callback that queues raw MIDI     *)
(* messages (midi_handler.rs), the decoder and facade Push2 (lib.rs) and   *)
(* the control state cache Push2State (state.rs), and the display          *)
(* Push2Display (display.rs) the facade owns.                              *)
(*                                                                         *)
(* midi_out holds the messages the most recent operation wrote to the      *)
(* output connection, ret the value it returned, consumed the messages it  *)
(* removed from the queue and op its name. enq_log and delivered are     *)
(* history: the messages queued so far and the events handed to the        *)
(* caller so far, recorded only by the logged actions of SpecQueue.        *)
(*                                                                         *)
(* frame_buffer and transfer_buffer are the display's two buffers, indexed *)
(* from 0 as in the code; pixels is the batch the most recent draw_iter    *)
(* was given and usb_out the bulk writes the most recent flush attempted.  *)
(* The display shares nothing with the MIDI side but the facade, so its    *)
(* operations are explored in a specification of their own, SpecDisplay.   *)
(* prev_flush is history too: the bulk writes of the flush before the most *)
(* recent one when no draw came between them, recorded by SpecFlushLog.    *)
(* call is the arguments of the most recent light command, recorded by     *)
(* SpecCommands.                                                           *)
(*                                                                         *)
(* button_map is the ButtonMap the facade loaded, and facade is where the  *)
(* facade is in its life (pc), which transport handles are open (open) and *)
(* the step of Push2::new that failed, if one did (failed_at).             *)
(*                                                                         *)
(* app_state is the AppState of the soundboard example, which runs on top  *)
(* of the facade; only SpecSoundboard runs its main loop.                  *)
(***************************************************************************)
EXTENDS Integers, Sequences, FiniteSets, TLC

VARIABLES event_rx, state, midi_out, ret, consumed, op, enqueued, calls,
          last_pad_velocity, last_button_velocity, enq_log, delivered,
          frame_buffer, transfer_buffer, pixels, usb_out, draws,
          prev_flush, call, facade, button_map, app_state

vars == <<event_rx, state, midi_out, ret, consumed, op, enqueued, calls,
          last_pad_velocity, last_button_velocity, enq_log, delivered,
          frame_buffer, transfer_buffer, pixels, usb_out, draws,
          prev_flush, call, facade, button_map, app_state>>

history == <<enq_log, delivered, prev_flush, call>>

display == <<frame_buffer, transfer_buffer, pixels, usb_out, draws>>

\* Total number of messages the input callback delivers in a run.
MaxMsgs == 2
\* Total number of messages delivered and light commands issued in a run.
MaxOps == 3

\* ---------------------------------------------------------------- constants
NOTE_ON == 144
NOTE_OFF == 128
CONTROL_CHANGE == 176
PITCH_BEND == 224
PAD_COLOR_ON == 122
BUTTON_LIGHT_ON == 2
I32Max == 2147483647
I32Min == (-I32Max) - 1
U16Mod == 65536

None == [type |-> "None"]

PadCoord(x, y) == [x |-> x, y |-> y]

\* ------------------------------------------------------------- address map
\* The three tables of ButtonMap as loaded from config/button_map.ron: pad
\* address a is the pad at x = (a-36) % 8, y = 7 - (a-36) \div 8.
DefaultButtonMap ==
    [note_map |-> (36 :> PadCoord(0, 7)) @@ (99 :> PadCoord(7, 0)),
     control_map |-> (29 :> "Control29") @@ (20 :> "Control20"),
     encoder_map |-> (71 :> "Control71") @@ (14 :> "Control14")]

\* The fields of the loaded ButtonMap.
note_map == button_map.note_map
control_map == button_map.control_map
encoder_map == button_map.encoder_map

\* A pad lookup that falls back to the first pad for an unknown address.
get_note_OrOrigin(address) ==
    IF address \in DOMAIN note_map THEN note_map[address] ELSE PadCoord(0, 0)

get_note(address) ==
    IF address \in DOMAIN note_map THEN note_map[address] ELSE None

get_control(address) ==
    IF address \in DOMAIN control_map THEN control_map[address] ELSE "None"

get_encoder(address) ==
    IF address \in DOMAIN encoder_map THEN encoder_map[address] ELSE "None"

\* Inverse lookups; 0 stands for Option::None (no address).
get_note_address(coord) ==
    IF \E a \in DOMAIN note_map : note_map[a] = coord
    THEN CHOOSE a \in DOMAIN note_map : note_map[a] = coord
    ELSE 0

get_control_address(name) ==
    IF \E a \in DOMAIN control_map : control_map[a] = name
    THEN CHOOSE a \in DOMAIN control_map : control_map[a] = name
    ELSE 0

get_control_addresses == DOMAIN control_map

\* ------------------------------------------------------------------ events
PadPressed(coord, velocity) ==
    [type |-> "PadPressed", coord |-> coord, velocity |-> velocity]
PadReleased(coord) == [type |-> "PadReleased", coord |-> coord]
ButtonPressed(name, velocity) ==
    [type |-> "ButtonPressed", name |-> name, velocity |-> velocity]
ButtonReleased(name) == [type |-> "ButtonReleased", name |-> name]
EncoderTwisted(name, raw_delta, value) ==
    [type |-> "EncoderTwisted", name |-> name, raw_delta |-> raw_delta,
     value |-> value]
SliderMoved(value) == [type |-> "SliderMoved", value |-> value]

\* ----------------------------------------------------------------- decoder
RECURSIVE BitOr(_, _)
BitOr(a, b) ==
    IF a = 0 THEN b
    ELSE IF b = 0 THEN a
    ELSE (IF a % 2 = 1 \/ b % 2 = 1 THEN 1 ELSE 0)
         + 2 * BitOr(a \div 2, b \div 2)

\* The slider bytes joined as if each carried 8 bits.
SliderValue_Shift8(lsb, msb) == BitOr((msb * 256) % U16Mod, lsb)

\* ((msb as u16) << 7) | (lsb as u16)
SliderValue(lsb, msb) == BitOr((msb * 128) % U16Mod, lsb)

\* A pad decoder that looks at the status byte only.
DecodeNote_StatusOnly(status, address, velocity) ==
    IF get_note(address) # None
    THEN IF status = NOTE_ON
         THEN PadPressed(get_note(address), velocity)
         ELSE PadReleased(get_note(address))
    ELSE None

DecodeNote(status, address, velocity) ==
    IF get_note(address) # None
    THEN IF status = NOTE_ON /\ velocity > 0
         THEN PadPressed(get_note(address), velocity)
         ELSE PadReleased(get_note(address))
    ELSE None

\* A control-change decoder that looks in the encoder table first.
DecodeControl_EncoderFirst(address, velocity) ==
    IF get_encoder(address) # "None"
    THEN EncoderTwisted(get_encoder(address), velocity, 0)
    ELSE IF get_control(address) # "None"
         THEN IF velocity > 0
              THEN ButtonPressed(get_control(address), velocity)
              ELSE ButtonReleased(get_control(address))
         ELSE None

\* A button decoder that takes only the value 127 for a press.
DecodeControl_Only127(address, velocity) ==
    IF get_control(address) # "None"
    THEN IF velocity = 127
         THEN ButtonPressed(get_control(address), velocity)
         ELSE ButtonReleased(get_control(address))
    ELSE IF get_encoder(address) # "None"
         THEN EncoderTwisted(get_encoder(address), velocity, 0)
         ELSE None

DecodeControl(address, velocity) ==
    IF get_control(address) # "None"
    THEN IF velocity > 0
         THEN ButtonPressed(get_control(address), velocity)
         ELSE ButtonReleased(get_control(address))
    ELSE IF get_encoder(address) # "None"
         THEN EncoderTwisted(get_encoder(address), velocity, 0)
         ELSE None

\* A decoder that reads a missing data byte as 0 instead of dropping the
\* message.
Decode_ShortAsZero(message) ==
    IF Len(message) = 0 THEN None
    ELSE LET status == message[1]
             b2 == IF Len(message) >= 2 THEN message[2] ELSE 0
             b3 == IF Len(message) >= 3 THEN message[3] ELSE 0
         IN  IF status \in {NOTE_ON, NOTE_OFF} THEN DecodeNote(status, b2, b3)
             ELSE IF status = CONTROL_CHANGE THEN DecodeControl(b2, b3)
             ELSE IF status = PITCH_BEND THEN SliderMoved(SliderValue(b2, b3))
             ELSE None

\* The body of poll_event's loop up to the parsed event: None covers both
\* `continue` and an event of None, which both go on to the next message.
Decode(message) ==
    IF Len(message) = 0 THEN None
    ELSE LET status == message[1] IN
         IF status \in {NOTE_ON, NOTE_OFF}
         THEN IF Len(message) < 3 THEN None
              ELSE DecodeNote(status, message[2], message[3])
         ELSE IF status = CONTROL_CHANGE
         THEN IF Len(message) < 3 THEN None
              ELSE DecodeControl(message[2], message[3])
         ELSE IF status = PITCH_BEND
         THEN IF Len(message) < 3 THEN None
              ELSE SliderMoved(SliderValue(message[2], message[3]))
         ELSE None

\* ------------------------------------------------------------- state cache
PadStateDefault == [velocity |-> 0, color |-> 0]
ButtonStateDefault == [velocity |-> 0, light |-> 0]
\* An encoder that starts at the middle of the 0..127 range.
EncoderStateDefault_Centered == [value |-> 64]

EncoderStateDefault == [value |-> 0]
EmptyMap == [n \in {} |-> 0]

\* Push2State::new
Push2State_new ==
    [pads |-> [y \in 0..7 |-> [x \in 0..7 |-> PadStateDefault]],
     buttons |-> EmptyMap,
     encoders |-> EmptyMap,
     slider |-> 0]

\* HashMap::entry(name).or_default()
or_default(map, name, default) ==
    IF name \in DOMAIN map THEN map ELSE map @@ (name :> default)

\* i32::wrapping_add for a delta of magnitude at most 128, computed without
\* leaving the 32-bit range.
wrapping_add(a, d) ==
    IF d > 0 /\ a > I32Max - d THEN I32Min + (d - (I32Max - a) - 1)
    ELSE IF d < 0 /\ a < I32Min - d THEN I32Max - ((-d) - (a - I32Min) - 1)
    ELSE a + d

\* A relative decode that counts 64 as counter-clockwise.
EncoderDelta_From64(raw) == IF raw >= 64 THEN (128 - raw) * (-1) ELSE raw

\* Push 2's relative value (1-63 = CW, 65-127 = CCW)
EncoderDelta(raw) == IF raw > 64 THEN (128 - raw) * (-1) ELSE raw

\* A pad message that is a note-on whatever the color.
PadColorMessage_AlwaysOn(address, color) == <<NOTE_ON, address, color>>

PadColorMessage(address, color) ==
    IF color = 0 THEN <<NOTE_OFF, address, 0>> ELSE <<NOTE_ON, address, color>>

ButtonLightMessage(address, light) ==
    IF light = 0 THEN <<CONTROL_CHANGE, address, 0>>
    ELSE <<CONTROL_CHANGE, address, light>>

\* Push2State::set_pad_color: the cache is written first, then the message
\* is handed to midi_out.send. The result is the new cache and the messages
\* handed to the transport.
State_set_pad_color(st, coord, color) ==
    [state |-> [st EXCEPT !.pads[coord.y][coord.x].color = color],
     sends |-> IF get_note_address(coord) # 0
               THEN <<PadColorMessage(get_note_address(coord), color)>>
               ELSE <<>>]

\* Push2State::set_button_light
State_set_button_light(st, name, light) ==
    [state |-> [st EXCEPT !.buttons =
                   [or_default(@, name, ButtonStateDefault)
                      EXCEPT ![name].light = light]],
     sends |-> IF get_control_address(name) # 0
               THEN <<ButtonLightMessage(get_control_address(name), light)>>
               ELSE <<>>]

ApplyPadPressed(st, coord, velocity) ==
    State_set_pad_color(
        [st EXCEPT !.pads[coord.y][coord.x].velocity = velocity],
        coord, PAD_COLOR_ON)

\* A release that leaves the pad's velocity as it was.
ApplyPadReleased_KeepVelocity(st, coord) == State_set_pad_color(st, coord, 0)

ApplyPadReleased(st, coord) ==
    State_set_pad_color(
        [st EXCEPT !.pads[coord.y][coord.x].velocity = 0], coord, 0)

ApplyButtonPressed(st, name, velocity) ==
    State_set_button_light(
        [st EXCEPT !.buttons =
            [or_default(@, name, ButtonStateDefault)
               EXCEPT ![name].velocity = velocity]],
        name, BUTTON_LIGHT_ON)

ApplyButtonReleased(st, name) ==
    State_set_button_light(
        [st EXCEPT !.buttons =
            [or_default(@, name, ButtonStateDefault)
               EXCEPT ![name].velocity = 0]],
        name, 0)

\* state.rs names the event's relative value `value` and tests it as a u8
\* (> 64, 128 - value, cast to i32): it is the byte the decoder of lib.rs
\* carries in raw_delta.
ApplyEncoderTwisted(st, name, raw) ==
    [state |-> [st EXCEPT !.encoders =
                   [or_default(@, name, EncoderStateDefault)
                      EXCEPT ![name].value =
                          wrapping_add(@, EncoderDelta(raw))]],
     sends |-> <<>>]

ApplySliderMoved(st, value) ==
    [state |-> [st EXCEPT !.slider = value], sends |-> <<>>]

\* Push2State::update_from_event
update_from_event(st, event) ==
    CASE event.type = "PadPressed" ->
            ApplyPadPressed(st, event.coord, event.velocity)
      [] event.type = "PadReleased" -> ApplyPadReleased(st, event.coord)
      [] event.type = "ButtonPressed" ->
            ApplyButtonPressed(st, event.name, event.velocity)
      [] event.type = "ButtonReleased" -> ApplyButtonReleased(st, event.name)
      [] event.type = "EncoderTwisted" ->
            ApplyEncoderTwisted(st, event.name, event.raw_delta)
      [] event.type = "SliderMoved" -> ApplySliderMoved(st, event.value)

\* self.state.encoders.get(name).map_or(0, |s| s.value)
EncoderValue(st, name) ==
    IF name \in DOMAIN st.encoders THEN st.encoders[name].value ELSE 0

\* The parsed event handed to the caller as decoded.
RewriteEvent_Placeholder(st, event) == event

\* poll_event, lines 262-264: the event handed to the caller.
RewriteEvent(st, event) ==
    IF event.type = "EncoderTwisted"
    THEN [event EXCEPT !.value = EncoderValue(st, event.name)]
    ELSE event

\* ------------------------------------------------------------------ inputs
\* The raw messages the input port delivers: pad notes (mapped and not),
\* button and encoder control changes, pitch bend, another status, and
\* messages cut short.
Messages ==
    { <<144, 36, 1>>, <<144, 36, 0>>, <<128, 36, 64>>, <<144, 99, 100>>,
      <<144, 1, 127>>,
      <<176, 29, 127>>, <<176, 29, 0>>, <<176, 20, 1>>,
      <<176, 71, 0>>, <<176, 71, 64>>, <<176, 71, 65>>, <<176, 71, 127>>,
      <<176, 14, 63>>,
      <<176, 1, 127>>, <<160, 36, 5>>,
      <<224, 127, 127>>, <<224, 1, 2>>,
      <<>>, <<144, 36>>, <<176, 71>> }

\* Arguments the caller passes to set_pad_color and set_button_light.
CallCoords == {PadCoord(0, 7), PadCoord(3, 3)}
CallNames == {"Control29", "Control21"}
CallColors == {0, 5}

\* ---------------------------------------------------------------- display
\* The panel is explored at a reduced size: DISPLAY_WIDTH and DISPLAY_HEIGHT
\* stand for the code's 960 and 160, FILLER for the 128 bytes that pad a
\* line to BYTES_PER_LINE, and the literals 959, 159 and 960 of draw_iter
\* are written DISPLAY_WIDTH - 1, DISPLAY_HEIGHT - 1 and DISPLAY_WIDTH.
DISPLAY_WIDTH == 3
DISPLAY_HEIGHT == 2
FILLER == 2

\* Number of draw_iter calls in a run.
MaxDraws == 2

BYTES_PER_LINE == DISPLAY_WIDTH * 2 + FILLER

HEADER == <<255, 204, 170, 136, 0, 0, 0, 0, 0, 0, 0, 0, 0, 0, 0, 0>>

MASK == [i \in 0..3 |-> <<231, 243, 231, 255>>[i + 1]]

\* u8 ^ u8
RECURSIVE BitXor(_, _)
BitXor(a, b) ==
    IF a = 0 /\ b = 0 THEN 0
    ELSE (((a % 2) + (b % 2)) % 2) + 2 * BitXor(a \div 2, b \div 2)

\* The two bytes of a cell, high byte first.
to_be_bytes(v) == <<v \div 256, v % 256>>

\* u16::to_le_bytes: b[0] is the first element.
to_le_bytes(v) == <<v % 256, v \div 256>>

\* A destination offset with the lines packed together, without filler.
dest_index_Packed(r, c) == r * (DISPLAY_WIDTH * 2) + c * 2

\* di in update_transfer_buffer
dest_index(r, c) == r * BYTES_PER_LINE + c * 2

\* A masking that adds the mask byte instead of XORing it.
mask_byte_Add(b, d) == (b + MASK[d % 4]) % 256

\* b ^ MASK[d % 4]
mask_byte(b, d) == BitXor(b, MASK[d % 4])

\* The two loops of update_transfer_buffer, from row r and column c on.
RECURSIVE encode_pixels(_, _, _, _)
encode_pixels(fb, tb, r, c) ==
    IF r = DISPLAY_HEIGHT THEN tb
    ELSE IF c = DISPLAY_WIDTH THEN encode_pixels(fb, tb, r + 1, 0)
    ELSE LET i == r * DISPLAY_WIDTH + c
             b == to_le_bytes(fb[i])
             di == dest_index(r, c)
         IN  encode_pixels(fb,
                 [tb EXCEPT ![di] = mask_byte(b[1], di),
                            ![di + 1] = mask_byte(b[2], di + 1)],
                 r, c + 1)

\* An encoding that XORs each new byte into what the buffer held.
update_transfer_buffer_Accumulate(fb, tb) ==
    LET encoded == encode_pixels(fb, tb, 0, 0)
    IN  [d \in DOMAIN tb |-> BitXor(tb[d], encoded[d])]

\* Push2Display::update_transfer_buffer
update_transfer_buffer(fb, tb) == encode_pixels(fb, tb, 0, 0)

Pixel(x, y, color) == [x |-> x, y |-> y, color |-> color]

\* A range test that lets the column one past the last through.
in_bounds_Inclusive(x, y) ==
    /\ x \in 0..DISPLAY_WIDTH
    /\ y \in 0..(DISPLAY_HEIGHT - 1)

\* The pattern of draw_iter: the point converts to unsigned coordinates and
\* they lie in 0..=959 and 0..=159.
in_bounds(x, y) ==
    /\ x \in 0..(DISPLAY_WIDTH - 1)
    /\ y \in 0..(DISPLAY_HEIGHT - 1)

\* The loop of draw_iter from the k-th pixel on. Indexing the boxed slice
\* outside its length panics.
RECURSIVE draw_pixels(_, _, _)
draw_pixels(fb, batch, k) ==
    IF k > Len(batch) THEN [frame_buffer |-> fb, panicked |-> FALSE]
    ELSE LET p == batch[k] IN
         IF in_bounds(p.x, p.y)
         THEN LET index == p.x + p.y * DISPLAY_WIDTH IN
              IF index \in DOMAIN fb
              THEN draw_pixels([fb EXCEPT ![index] = p.color], batch, k + 1)
              ELSE [frame_buffer |-> fb, panicked |-> TRUE]
         ELSE draw_pixels(fb, batch, k + 1)

BulkWrite(data, ok) == [data |-> data, ok |-> ok]

USBError == [type |-> "Err", error |-> "USBError"]

\* A flush that writes the body before the header.
flush_writes_BodyFirst(tb, header_ok, body_ok) ==
    IF ~body_ok
    THEN [writes |-> <<BulkWrite(tb, FALSE)>>, ret |-> USBError]
    ELSE IF ~header_ok
    THEN [writes |-> <<BulkWrite(tb, TRUE), BulkWrite(HEADER, FALSE)>>,
          ret |-> USBError]
    ELSE [writes |-> <<BulkWrite(tb, TRUE), BulkWrite(HEADER, TRUE)>>,
          ret |-> [type |-> "Ok"]]

\* A flush that tries a failed write a second time.
flush_writes_Retry(tb, header_ok, body_ok) ==
    IF ~header_ok
    THEN [writes |-> <<BulkWrite(HEADER, FALSE), BulkWrite(HEADER, FALSE)>>,
          ret |-> USBError]
    ELSE IF ~body_ok
    THEN [writes |-> <<BulkWrite(HEADER, TRUE), BulkWrite(tb, FALSE),
                       BulkWrite(tb, FALSE)>>,
          ret |-> USBError]
    ELSE [writes |-> <<BulkWrite(HEADER, TRUE), BulkWrite(tb, TRUE)>>,
          ret |-> [type |-> "Ok"]]

\* The two write_bulk calls of flush, each followed by ?.
flush_writes(tb, header_ok, body_ok) ==
    IF ~header_ok
    THEN [writes |-> <<BulkWrite(HEADER, FALSE)>>, ret |-> USBError]
    ELSE IF ~body_ok
    THEN [writes |-> <<BulkWrite(HEADER, TRUE), BulkWrite(tb, FALSE)>>,
          ret |-> USBError]
    ELSE [writes |-> <<BulkWrite(HEADER, TRUE), BulkWrite(tb, TRUE)>>,
          ret |-> [type |-> "Ok"]]

\* A constructor that sizes the transfer buffer without the line filler.
Push2Display_new_Unpadded ==
    /\ frame_buffer = [i \in 0..(DISPLAY_WIDTH * DISPLAY_HEIGHT - 1) |-> 0]
    /\ transfer_buffer =
          [i \in 0..(DISPLAY_WIDTH * 2 * DISPLAY_HEIGHT - 1) |-> 0]
    /\ pixels = <<>>
    /\ usb_out = <<>>
    /\ draws = 0

\* Push2Display::new: both buffers start as zeros.
Push2Display_new ==
    /\ frame_buffer = [i \in 0..(DISPLAY_WIDTH * DISPLAY_HEIGHT - 1) |-> 0]
    /\ transfer_buffer = [i \in 0..(BYTES_PER_LINE * DISPLAY_HEIGHT - 1) |-> 0]
    /\ pixels = <<>>
    /\ usb_out = <<>>
    /\ draws = 0

\* Bgr565 colours in storage form: 0x1234 and white.
DrawColors == {4660, 65535}

\* Coordinates at the edges of the panel and one step beyond them.
EdgeX == {-1, 0, DISPLAY_WIDTH - 1, DISPLAY_WIDTH}
EdgeY == {-1, 0, DISPLAY_HEIGHT - 1, DISPLAY_HEIGHT}

\* Batches of pixels the caller draws: a single pixel in a corner of the
\* panel or one step outside it, the empty batch, one cell drawn twice, and
\* a dropped pixel followed by a kept one.
PixelBatches ==
    {<<>>}
    \cup {<<Pixel(x, y, color)>> :
            x \in EdgeX, y \in EdgeY, color \in DrawColors}
    \cup {<<Pixel(0, 0, 4660), Pixel(0, 0, 65535)>>,
          <<Pixel(DISPLAY_WIDTH, 0, 4660),
            Pixel(DISPLAY_WIDTH - 1, DISPLAY_HEIGHT - 1, 4660)>>}

\* ----------------------------------------------------------------- facade
\* The transport handles the facade holds: the two MIDI connections, the
\* opened USB device and its claimed interface.
Handles == {"midi_in", "midi_out", "usb_device", "usb_interface"}

\* A facade that Push2::new has returned.
AliveFacade == [pc |-> "alive", open |-> Handles, failed_at |-> "None"]

\* The handles each local of Push2::new, MidiHandler::new and
\* Push2Display::new owns; dropping the local closes them.
Owned(local) ==
    CASE local = "_conn_in" -> {"midi_in"}
      [] local = "midi_handler" -> {"midi_in", "midi_out"}
      [] local = "handle" -> {"usb_device", "usb_interface"}
      [] local = "push2" -> Handles

Released(locals) == UNION {Owned(local) : local \in locals}

\* Locals as in_scope_at, but with the MidiHandler no longer a local that
\* an early return of Push2::new drops.
in_scope_at_NoHandler(step) ==
    CASE step \in {"app_config", "midi_in"} -> {}
      [] step = "midi_out" -> {"_conn_in"}
      [] step \in {"button_map", "open_device"} -> {}
      [] step = "claim_interface" -> {"handle"}
      [] step \in {"reset_all_lights", "drop"} -> {"push2"}

\* The handle-owning locals in scope where each step returns early with ?
\* (and, for drop, the value that goes out of scope).
in_scope_at(step) ==
    CASE step \in {"app_config", "midi_in"} -> {}
      [] step = "midi_out" -> {"_conn_in"}
      [] step \in {"button_map", "open_device"} -> {"midi_handler"}
      [] step = "claim_interface" -> {"handle", "midi_handler"}
      [] step \in {"reset_all_lights", "drop"} -> {"push2"}

\* The facade after a step of Push2::new: on success it holds what the step
\* opened, on failure the locals in scope are dropped and the error is
\* returned.
AfterStep(step, next_pc, gained, ok) ==
    IF ok
    THEN [facade EXCEPT !.pc = next_pc, !.open = @ \cup gained]
    ELSE [pc |-> "failed",
          open |-> facade.open \ Released(in_scope_at(step)),
          failed_at |-> step]

\* The soundboard example's AppState before its main has run: the fields
\* the event handlers read and write. An Option<u8> is a set with at most
\* one address; pad_files is the key set of the map; files are the
\* addresses whose recording exists on disk; audio_cmds are the sends on
\* audio_cmd_tx so far, each with whether it succeeded; capture is whether
\* the capture thread, which holds the receiving end, still runs.
AppState_new ==
    [mode |-> "Playback",
     pad_files |-> {},
     active_recording_key |-> {},
     selected_for_edit |-> {},
     files |-> {},
     audio_cmds |-> <<>>,
     capture |-> "running",
     pc |-> "init"]

\* ------------------------------------------------------------------- Init
\* The orders in which a HashMap's keys can be iterated.
Orders(S) ==
    {s \in [1..Cardinality(S) -> S] :
        \A i, j \in 1..Cardinality(S) : i # j => s[i] # s[j]}

\* Push2::reset_all_lights
reset_all_lights(order) ==
    [i \in 1..64 |-> <<NOTE_OFF, 35 + i, 0>>]
    \o [i \in 1..Len(order) |-> <<CONTROL_CHANGE, order[i], 0>>]

\* Push2::new
Init ==
    /\ button_map = DefaultButtonMap
    /\ event_rx = <<>>
    /\ state = Push2State_new
    /\ \E order \in Orders(get_control_addresses) :
          midi_out = reset_all_lights(order)
    /\ ret = [type |-> "Ok"]
    /\ consumed = <<>>
    /\ op = "new"
    /\ enqueued = 0
    /\ calls = 0
    /\ last_pad_velocity = [c \in {note_map[a] : a \in DOMAIN note_map} |-> 0]
    /\ last_button_velocity =
          [n \in {control_map[a] : a \in DOMAIN control_map} |-> 0]
    /\ enq_log = <<>>
    /\ delivered = <<>>
    /\ Push2Display_new
    /\ prev_flush = <<>>
    /\ call = None
    /\ app_state = AppState_new
    /\ facade = AliveFacade

\* ---------------------------------------------------------------- actions
\* A channel of capacity 1, as sync_channel(1) would give.
channel_has_room_Bounded(queue) == Len(queue) < 1

\* mpsc::channel() is unbounded: send never waits for room.
channel_has_room(queue) == TRUE

\* A send that puts the message at the head of the queue.
tx_send_Front(queue, message) == <<message>> \o queue

\* Sender::send: the message goes to the tail of the queue, bytes as
\* received (message.to_vec()).
tx_send(queue, message) == Append(queue, message)

\* The input connection's callback: tx.send(message.to_vec())
EnqueueStep ==
    /\ enqueued < MaxMsgs
    /\ enqueued + calls < MaxOps
    /\ channel_has_room(event_rx)
    /\ \E message \in Messages : event_rx' = tx_send(event_rx, message)
    /\ enqueued' = enqueued + 1
    /\ midi_out' = <<>>
    /\ ret' = None
    /\ consumed' = <<>>
    /\ op' = "enqueue"
    /\ UNCHANGED <<state, calls, last_pad_velocity, last_button_velocity,
                   display, facade, button_map, app_state>>

Enqueue == EnqueueStep /\ UNCHANGED history

\* The callback, with the queued message recorded in enq_log.
EnqueueLogged ==
    /\ EnqueueStep
    /\ enq_log' = Append(enq_log, event_rx'[Len(event_rx')])
    /\ UNCHANGED <<delivered, prev_flush, call>>

\* A loop that empties the queue whatever it decodes.
Remaining_DropAll(queue, n) == <<>>

\* What try_recv has not taken after n messages were received.
Remaining(queue, n) == SubSeq(queue, n + 1, Len(queue))

\* A loop that goes on to the last queued message that decodes to an event.
FirstEvent_Last(queue) ==
    IF \E i \in 1..Len(queue) : Decode(queue[i]) # None
    THEN CHOOSE i \in 1..Len(queue) :
            /\ Decode(queue[i]) # None
            /\ \A j \in (i + 1)..Len(queue) : Decode(queue[j]) = None
    ELSE 0

\* Index of the first queued message that decodes to an event, 0 if none.
FirstEvent(queue) ==
    IF \E i \in 1..Len(queue) : Decode(queue[i]) # None
    THEN CHOOSE i \in 1..Len(queue) :
            /\ Decode(queue[i]) # None
            /\ \A j \in 1..(i - 1) : Decode(queue[j]) = None
    ELSE 0

\* The velocity a delivered event reports for a control: the pressed
\* velocity, 0 for a release.
NoteVelocity(prev, event) ==
    IF event.type = "PadPressed"
    THEN [prev EXCEPT ![event.coord] = event.velocity]
    ELSE IF event.type = "PadReleased"
    THEN [prev EXCEPT ![event.coord] = 0]
    ELSE prev

ControlVelocity(prev, event) ==
    IF event.type = "ButtonPressed"
    THEN [prev EXCEPT ![event.name] = event.velocity]
    ELSE IF event.type = "ButtonReleased"
    THEN [prev EXCEPT ![event.name] = 0]
    ELSE prev

\* Push2::poll_event. send_ok is whether midi_out.send succeeds; the Result
\* of update_from_event is not looked at, so the event is returned either
\* way.
PollStep ==
    \E send_ok \in BOOLEAN, k \in {FirstEvent(event_rx)} :
    LET n == IF k = 0 THEN Len(event_rx) ELSE k
    IN  /\ consumed' = SubSeq(event_rx, 1, n)
        /\ event_rx' = Remaining(event_rx, n)
        /\ op' = "poll"
        /\ UNCHANGED <<enqueued, calls, display, facade, button_map,
                       app_state>>
        /\ IF k = 0
           THEN /\ ret' = None
                /\ midi_out' = <<>>
                /\ UNCHANGED <<state, last_pad_velocity, last_button_velocity>>
           ELSE \E upd \in {update_from_event(state, Decode(event_rx[k]))} :
                LET parsed_event == Decode(event_rx[k])
                IN  /\ state' = upd.state
                    /\ midi_out' = IF send_ok THEN upd.sends ELSE <<>>
                    /\ ret' = RewriteEvent(upd.state, parsed_event)
                    /\ last_pad_velocity' =
                          NoteVelocity(last_pad_velocity, ret')
                    /\ last_button_velocity' =
                          ControlVelocity(last_button_velocity, ret')

poll_event == PollStep /\ UNCHANGED history

\* poll_event, with a returned event recorded in delivered.
PollLogged ==
    /\ PollStep
    /\ delivered' = IF ret' # None THEN Append(delivered, ret') ELSE delivered
    /\ UNCHANGED <<enq_log, prev_flush, call>>

\* Push2::set_pad_color: send first, and write the cache only if the send
\* succeeded; a coordinate without an address is a no-op.
Push2_set_pad_color(coord, color, send_ok) ==
    LET address == get_note_address(coord) IN
        /\ enqueued + calls < MaxOps
        /\ calls' = calls + 1
        /\ op' = "set_pad_color"
        /\ consumed' = <<>>
        /\ UNCHANGED <<facade, button_map, app_state, event_rx, enqueued,
                       last_pad_velocity, last_button_velocity, display>>
        /\ IF address # 0
           THEN IF send_ok
                THEN /\ midi_out' = <<PadColorMessage(address, color)>>
                     /\ state' = [state EXCEPT
                                    !.pads[coord.y][coord.x].color = color]
                     /\ ret' = [type |-> "Ok"]
                ELSE /\ midi_out' = <<>>
                     /\ ret' = [type |-> "Err"]
                     /\ UNCHANGED state
           ELSE /\ midi_out' = <<>>
                /\ ret' = [type |-> "Ok"]
                /\ UNCHANGED state

set_pad_color ==
    \E coord \in CallCoords, color \in CallColors, send_ok \in BOOLEAN :
        /\ Push2_set_pad_color(coord, color, send_ok)
        /\ UNCHANGED history

\* Push2::set_button_light
Push2_set_button_light(name, light, send_ok) ==
    LET address == get_control_address(name) IN
        /\ enqueued + calls < MaxOps
        /\ calls' = calls + 1
        /\ op' = "set_button_light"
        /\ consumed' = <<>>
        /\ UNCHANGED <<facade, button_map, app_state, event_rx, enqueued,
                       last_pad_velocity, last_button_velocity, display>>
        /\ IF address # 0
           THEN IF send_ok
                THEN /\ midi_out' = <<ButtonLightMessage(address, light)>>
                     /\ state' = [state EXCEPT !.buttons =
                                    [or_default(@, name, ButtonStateDefault)
                                       EXCEPT ![name].light = light]]
                     /\ ret' = [type |-> "Ok"]
                ELSE /\ midi_out' = <<>>
                     /\ ret' = [type |-> "Err"]
                     /\ UNCHANGED state
           ELSE /\ midi_out' = <<>>
                /\ ret' = [type |-> "Ok"]
                /\ UNCHANGED state

set_button_light ==
    \E name \in CallNames, light \in CallColors, send_ok \in BOOLEAN :
        /\ Push2_set_button_light(name, light, send_ok)
        /\ UNCHANGED history

Next ==
    \/ Enqueue
    \/ poll_event
    \/ set_pad_color
    \/ set_button_light

Spec == Init /\ [][Next]_vars

\* Coordinates a caller can pass: a mapped pad, a pad the map has no
\* address for, and two outside the 8x8 grid.
CommandCoords == CallCoords \cup {PadCoord(8, 0), PadCoord(0, 8)}

\* The bounds check of pads[coord.y as usize][coord.x as usize] on
\* [[PadState; 8]; 8].
pad_index_in_bounds(coord) == coord.x \in 0..7 /\ coord.y \in 0..7

\* Push2::set_pad_color with its arguments recorded.
SetPadColorLogged ==
    \E coord \in CommandCoords, color \in CallColors, send_ok \in BOOLEAN :
        /\ Push2_set_pad_color(coord, color, send_ok)
        /\ call' = [coord |-> coord, color |-> color]
        /\ UNCHANGED <<enq_log, delivered, prev_flush>>

\* Push2::set_button_light with its arguments recorded.
SetButtonLightLogged ==
    \E name \in CallNames, light \in CallColors, send_ok \in BOOLEAN :
        /\ Push2_set_button_light(name, light, send_ok)
        /\ call' = [name |-> name, light |-> light]
        /\ UNCHANGED <<enq_log, delivered, prev_flush>>

\* Push2State::set_pad_color called on the facade's public state field with
\* the facade's connection and map. Indexing the pad array outside the grid
\* panics before anything is written or sent.
StateSetPadColor ==
    \E coord \in CommandCoords, color \in CallColors, send_ok \in BOOLEAN :
        /\ enqueued + calls < MaxOps
        /\ calls' = calls + 1
        /\ op' = "state.set_pad_color"
        /\ consumed' = <<>>
        /\ call' = [coord |-> coord, color |-> color]
        /\ UNCHANGED <<facade, button_map, app_state, event_rx, enqueued,
                       last_pad_velocity, last_button_velocity, display,
                       enq_log, delivered, prev_flush>>
        /\ IF ~pad_index_in_bounds(coord)
           THEN /\ ret' = [type |-> "Panic"]
                /\ midi_out' = <<>>
                /\ UNCHANGED state
           ELSE LET set == State_set_pad_color(state, coord, color) IN
                /\ state' = set.state
                /\ midi_out' = IF send_ok THEN set.sends ELSE <<>>
                /\ ret' = IF set.sends # <<>> /\ ~send_ok
                          THEN [type |-> "Err"] ELSE [type |-> "Ok"]

\* Push2State::set_button_light called the same way.
StateSetButtonLight ==
    \E name \in CallNames, light \in CallColors, send_ok \in BOOLEAN :
    LET set == State_set_button_light(state, name, light) IN
        /\ enqueued + calls < MaxOps
        /\ calls' = calls + 1
        /\ op' = "state.set_button_light"
        /\ consumed' = <<>>
        /\ call' = [name |-> name, light |-> light]
        /\ UNCHANGED <<facade, button_map, app_state, event_rx, enqueued,
                       last_pad_velocity, last_button_velocity, display,
                       enq_log, delivered, prev_flush>>
        /\ state' = set.state
        /\ midi_out' = IF send_ok THEN set.sends ELSE <<>>
        /\ ret' = IF set.sends # <<>> /\ ~send_ok
                  THEN [type |-> "Err"] ELSE [type |-> "Ok"]

\* The light commands alone, through the facade and on its state field.
NextCommands ==
    \/ SetPadColorLogged
    \/ SetButtonLightLogged
    \/ StateSetPadColor
    \/ StateSetButtonLight

SpecCommands == Init /\ [][NextCommands]_vars

\* ------------------------------------------------- construction and drop
\* Nothing is open before Push2::new is called.
InitLifecycle ==
    /\ button_map = DefaultButtonMap
    /\ event_rx = <<>>
    /\ state = Push2State_new
    /\ midi_out = <<>>
    /\ ret = None
    /\ consumed = <<>>
    /\ op = "start"
    /\ enqueued = 0
    /\ calls = 0
    /\ last_pad_velocity = [c \in {note_map[a] : a \in DOMAIN note_map} |-> 0]
    /\ last_button_velocity =
          [n \in {control_map[a] : a \in DOMAIN control_map} |-> 0]
    /\ enq_log = <<>>
    /\ delivered = <<>>
    /\ Push2Display_new
    /\ prev_flush = <<>>
    /\ call = None
    /\ app_state = AppState_new
    /\ facade = [pc |-> "start", open |-> {}, failed_at |-> "None"]

\* A step of Push2::new that sends nothing.
NewStep(pc, step, next_pc, gained) ==
    /\ facade.pc = pc
    /\ \E ok \in BOOLEAN :
          /\ facade' = AfterStep(step, next_pc, gained, ok)
          /\ ret' = IF ok THEN None ELSE [type |-> "Err"]
    /\ op' = "new"
    /\ UNCHANGED <<button_map, app_state, event_rx, state, midi_out, consumed,
                   enqueued, calls, last_pad_velocity, last_button_velocity,
                   display, history>>

\* AppConfig::new()?
NewAppConfig == NewStep("start", "app_config", "config", {})

\* MidiHandler::new up to midi_in.connect(..)?
NewMidiIn == NewStep("config", "midi_in", "midi_in", {"midi_in"})

\* MidiHandler::new from MidiOutput::new to midi_out.connect(..)?
NewMidiOut == NewStep("midi_in", "midi_out", "midi", {"midi_out"})

\* ButtonMap::new()?
NewButtonMap == NewStep("midi", "button_map", "map", {})

\* Push2Display::new up to open_device(..).ok_or(Push2NotFound)?
NewOpenDevice == NewStep("map", "open_device", "device", {"usb_device"})

\* handle.claim_interface(0)?
NewClaimInterface ==
    NewStep("device", "claim_interface", "display", {"usb_interface"})

\* A startup reset whose result is not looked at: the facade is returned
\* however many sends succeeded.
NewResetLights_IgnoreErrors ==
    /\ facade.pc = "display"
    /\ \E order \in Orders(get_control_addresses) :
       \E k \in 0..Len(reset_all_lights(order)) :
          /\ midi_out' = SubSeq(reset_all_lights(order), 1, k)
          /\ facade' = AfterStep("reset_all_lights", "alive", {}, TRUE)
          /\ ret' = [type |-> "Ok"]
    /\ op' = "new"
    /\ UNCHANGED <<button_map, app_state, event_rx, state, consumed, enqueued,
                   calls, last_pad_velocity, last_button_velocity, display,
                   history>>

\* push2.reset_all_lights()?: the first k sends succeed; the reset fails at
\* the next one unless there is none.
NewResetLights ==
    /\ facade.pc = "display"
    /\ \E order \in Orders(get_control_addresses) :
       \E k \in 0..Len(reset_all_lights(order)) :
          /\ midi_out' = SubSeq(reset_all_lights(order), 1, k)
          /\ facade' = AfterStep("reset_all_lights", "alive", {},
                                 k = Len(reset_all_lights(order)))
          /\ ret' = IF k = Len(reset_all_lights(order))
                    THEN [type |-> "Ok"] ELSE [type |-> "Err"]
    /\ op' = "new"
    /\ UNCHANGED <<button_map, app_state, event_rx, state, consumed, enqueued,
                   calls, last_pad_velocity, last_button_velocity, display,
                   history>>

\* The caller lets the facade go out of scope.
DropPush2 ==
    /\ facade.pc = "alive"
    /\ facade' = [pc |-> "dropped",
                  open |-> facade.open \ Released(in_scope_at("drop")),
                  failed_at |-> "None"]
    /\ op' = "drop"
    /\ ret' = None
    /\ midi_out' = <<>>
    /\ UNCHANGED <<button_map, app_state, event_rx, state, consumed, enqueued,
                   calls, last_pad_velocity, last_button_velocity, display,
                   history>>

\* The callback and the consumer of a live facade.
AliveEnqueue == facade.pc = "alive" /\ Enqueue
AlivePoll == facade.pc = "alive" /\ poll_event

NextLifecycle ==
    \/ NewAppConfig
    \/ NewMidiIn
    \/ NewMidiOut
    \/ NewButtonMap
    \/ NewOpenDevice
    \/ NewClaimInterface
    \/ NewResetLights
    \/ AliveEnqueue
    \/ AlivePoll
    \/ DropPush2

SpecLifecycle == InitLifecycle /\ [][NextLifecycle]_vars

\* ---------------------------------------------------------------- teardown
\* The fields of struct Push2 in declaration order, which is the order in
\* which a dropped Push2 drops them.
Push2Fields ==
    <<"display", "midi_out", "button_map", "state", "event_rx", "_conn_in">>

\* The transport handles a field owns.
FieldOwned(field) ==
    CASE field = "display" -> {"usb_device", "usb_interface"}
      [] field = "midi_out" -> {"midi_out"}
      [] field = "_conn_in" -> {"midi_in"}
      [] OTHER -> {}

\* The Receiver is alive until the event_rx field has been dropped.
ReceiverAlive ==
    \E i \in (facade.dropped + 1)..Len(Push2Fields) :
        Push2Fields[i] = "event_rx"

\* A live facade, none of its fields dropped yet.
InitTeardown ==
    /\ button_map = DefaultButtonMap
    /\ event_rx = <<>>
    /\ state = Push2State_new
    /\ \E order \in Orders(get_control_addresses) :
          midi_out = reset_all_lights(order)
    /\ ret = [type |-> "Ok"]
    /\ consumed = <<>>
    /\ op = "new"
    /\ enqueued = 0
    /\ calls = 0
    /\ last_pad_velocity = [c \in {note_map[a] : a \in DOMAIN note_map} |-> 0]
    /\ last_button_velocity =
          [n \in {control_map[a] : a \in DOMAIN control_map} |-> 0]
    /\ enq_log = <<>>
    /\ delivered = <<>>
    /\ Push2Display_new
    /\ prev_flush = <<>>
    /\ call = None
    /\ app_state = AppState_new
    /\ facade = [pc |-> "alive", open |-> Handles, failed_at |-> "None",
                 dropped |-> 0]

\* The drop of the next field of a Push2 that went out of scope. Dropping
\* the Receiver discards what is queued.
DropField ==
    /\ facade.pc \in {"alive", "dropping"}
    /\ LET field == Push2Fields[facade.dropped + 1] IN
          /\ facade' = [facade EXCEPT
                          !.dropped = @ + 1,
                          !.pc = IF facade.dropped + 1 = Len(Push2Fields)
                                 THEN "dropped" ELSE "dropping",
                          !.open = @ \ FieldOwned(field)]
          /\ event_rx' = IF field = "event_rx" THEN <<>> ELSE event_rx
    /\ op' = "drop"
    /\ ret' = None
    /\ midi_out' = <<>>
    /\ consumed' = <<>>
    /\ UNCHANGED <<button_map, app_state, state, enqueued, calls,
                   last_pad_velocity, last_button_velocity, display, history>>

\* The callback on the transport thread, which runs as long as the input
\* connection is open: tx.send(message.to_vec()).unwrap() panics when the
\* Receiver is gone.
TeardownCallback ==
    /\ "midi_in" \in facade.open
    /\ IF ReceiverAlive
       THEN Enqueue
       ELSE /\ enqueued < MaxMsgs
            /\ enqueued + calls < MaxOps
            /\ enqueued' = enqueued + 1
            /\ op' = "enqueue"
            /\ ret' = [type |-> "Panic"]
            /\ midi_out' = <<>>
            /\ consumed' = <<>>
            /\ UNCHANGED <<event_rx, state, calls, last_pad_velocity,
                           last_button_velocity, display, facade, button_map,
                           app_state, history>>

NextTeardown == DropField \/ TeardownCallback

SpecTeardown == InitTeardown /\ [][NextTeardown]_vars

\* The producer and the consumer alone, with the history recorded.
NextQueue ==
    \/ EnqueueLogged
    \/ PollLogged

SpecQueue == Init /\ [][NextQueue]_vars

\* The consumer's loop calls poll_event again and again: a poll that can
\* change something is eventually taken. The producer is left free.
SpecQueueLive == SpecQueue /\ WF_vars(PollLogged)

\* DrawTarget::draw_iter for Push2Display
DrawStep ==
    \E batch \in PixelBatches :
    LET drawn == draw_pixels(frame_buffer, batch, 1) IN
        /\ draws < MaxDraws
        /\ draws' = draws + 1
        /\ frame_buffer' = drawn.frame_buffer
        /\ pixels' = batch
        /\ usb_out' = <<>>
        /\ op' = "draw_iter"
        /\ ret' = IF drawn.panicked THEN [type |-> "Panic"]
                  ELSE [type |-> "Ok"]
        /\ UNCHANGED <<facade, button_map, app_state, transfer_buffer,
                       event_rx, state, midi_out, consumed, enqueued, calls,
                       last_pad_velocity, last_button_velocity>>

draw_iter == DrawStep /\ UNCHANGED history

\* draw_iter, after which the next flush is the first of its frame.
DrawLogged ==
    /\ DrawStep
    /\ prev_flush' = <<>>
    /\ UNCHANGED <<enq_log, delivered, call>>

\* Push2Display::flush. Each bulk write succeeds or fails (a timeout or an
\* I/O error of the transport).
FlushStep ==
    \E tb \in {update_transfer_buffer(frame_buffer, transfer_buffer)},
       header_ok \in BOOLEAN, body_ok \in BOOLEAN :
    LET written == flush_writes(tb, header_ok, body_ok)
    IN  /\ transfer_buffer' = tb
        /\ usb_out' = written.writes
        /\ ret' = written.ret
        /\ pixels' = <<>>
        /\ op' = "flush"
        /\ UNCHANGED <<facade, button_map, app_state, frame_buffer, draws,
                       event_rx, state, midi_out, consumed, enqueued, calls,
                       last_pad_velocity, last_button_velocity>>

flush == FlushStep /\ UNCHANGED history

\* flush, with the writes of the flush it follows kept.
FlushLogged ==
    /\ FlushStep
    /\ prev_flush' = usb_out
    /\ UNCHANGED <<enq_log, delivered, call>>

\* The display of a facade whose MIDI side is idle.
NextDisplay ==
    \/ draw_iter
    \/ flush

SpecDisplay == Init /\ [][NextDisplay]_vars

\* The display with the previous flush recorded.
NextFlushLog ==
    \/ DrawLogged
    \/ FlushLogged

SpecFlushLog == Init /\ [][NextFlushLog]_vars

\* A cache in which the Control71 encoder has been twisted one way for a
\* long time (about 2^25 full-speed ticks reach either end of the i32
\* range), with the queue drained by a final poll.
ExtremeValues == {I32Max, I32Max - 1, I32Max - 64, I32Min, I32Min + 1, I32Min + 63}

InitAtExtreme ==
    /\ button_map = DefaultButtonMap
    /\ event_rx = <<>>
    /\ \E v \in ExtremeValues :
          state = [Push2State_new EXCEPT
                     !.encoders = ("Control71" :> [value |-> v])]
    /\ midi_out = <<>>
    /\ ret = None
    /\ consumed = <<>>
    /\ op = "poll"
    /\ enqueued = 0
    /\ calls = 0
    /\ last_pad_velocity = [c \in {note_map[a] : a \in DOMAIN note_map} |-> 0]
    /\ last_button_velocity =
          [n \in {control_map[a] : a \in DOMAIN control_map} |-> 0]
    /\ enq_log = <<>>
    /\ delivered = <<>>
    /\ Push2Display_new
    /\ prev_flush = <<>>
    /\ call = None
    /\ app_state = AppState_new
    /\ facade = AliveFacade

SpecAtExtreme == InitAtExtreme /\ [][Next]_vars

\* Every 3-byte message the device can send on the model's addresses: the
\* two data bytes of a MIDI message carry 7 bits each.
WireMessages ==
    {<<status, address, velocity>> :
        status \in {NOTE_ON, NOTE_OFF}, address \in {36, 99, 1},
        velocity \in 0..127}
    \cup {<<CONTROL_CHANGE, address, value>> :
            address \in {29, 20, 71, 14, 1}, value \in 0..127}
    \cup {<<PITCH_BEND, lsb, msb>> : lsb \in 0..127, msb \in 0..127}
    \cup {<<160, address, value>> : address \in {36, 29}, value \in 0..127}

\* The encoder map of a fresh cache, and of one in which Control71 has been
\* twisted to 100 or to -64.
StoredEncoders ==
    {EmptyMap, ("Control71" :> [value |-> 100]),
     ("Control71" :> [value |-> 0 - 64])}

\* One message has just been queued by the input callback.
InitDecode ==
    /\ button_map = DefaultButtonMap
    /\ \E message \in WireMessages, stored \in StoredEncoders :
          /\ stored # EmptyMap => message[1] = CONTROL_CHANGE
          /\ event_rx = <<message>>
          /\ state = [Push2State_new EXCEPT !.encoders = stored]
    /\ midi_out = <<>>
    /\ ret = None
    /\ consumed = <<>>
    /\ op = "enqueue"
    /\ enqueued = 1
    /\ calls = 0
    /\ last_pad_velocity = [c \in {note_map[a] : a \in DOMAIN note_map} |-> 0]
    /\ last_button_velocity =
          [n \in {control_map[a] : a \in DOMAIN control_map} |-> 0]
    /\ enq_log = <<>>
    /\ delivered = <<>>
    /\ Push2Display_new
    /\ prev_flush = <<>>
    /\ call = None
    /\ app_state = AppState_new
    /\ facade = AliveFacade

SpecDecode == InitDecode /\ [][poll_event]_vars

\* Messages cut short: no byte, the status byte alone, or the status byte
\* and one data byte.
ShortMessages ==
    {<<>>}
    \cup {<<status>> : status \in {NOTE_ON, NOTE_OFF, CONTROL_CHANGE, PITCH_BEND}}
    \cup {<<status, address>> :
            status \in {NOTE_ON, NOTE_OFF, CONTROL_CHANGE, PITCH_BEND},
            address \in {36, 29, 71, 1}}

\* The input callback has queued a short message, and possibly another
\* message behind it.
InitShort ==
    /\ button_map = DefaultButtonMap
    /\ \E first \in ShortMessages,
          rest \in {<<>>} \cup {<<message>> : message \in Messages} :
          event_rx = <<first>> \o rest
    /\ state = Push2State_new
    /\ midi_out = <<>>
    /\ ret = None
    /\ consumed = <<>>
    /\ op = "enqueue"
    /\ enqueued = Len(event_rx)
    /\ calls = 0
    /\ last_pad_velocity = [c \in {note_map[a] : a \in DOMAIN note_map} |-> 0]
    /\ last_button_velocity =
          [n \in {control_map[a] : a \in DOMAIN control_map} |-> 0]
    /\ enq_log = <<>>
    /\ delivered = <<>>
    /\ Push2Display_new
    /\ prev_flush = <<>>
    /\ call = None
    /\ app_state = AppState_new
    /\ facade = AliveFacade

SpecShort == InitShort /\ [][poll_event]_vars

\* Colours that put every byte value in the low byte and in the high byte.
ByteColors ==
    {lo + 256 * hi : lo \in 0..255, hi \in {18, 255}}
    \cup {lo + 256 * hi : lo \in {52, 255}, hi \in 0..255}

\* A display on which one cell has been drawn in some colour, the others
\* black, and nothing has been flushed.
InitFrame ==
    /\ button_map = DefaultButtonMap
    /\ event_rx = <<>>
    /\ state = Push2State_new
    /\ midi_out = <<>>
    /\ ret = [type |-> "Ok"]
    /\ consumed = <<>>
    /\ op = "draw_iter"
    /\ enqueued = 0
    /\ calls = 0
    /\ last_pad_velocity = [c \in {note_map[a] : a \in DOMAIN note_map} |-> 0]
    /\ last_button_velocity =
          [n \in {control_map[a] : a \in DOMAIN control_map} |-> 0]
    /\ enq_log = <<>>
    /\ delivered = <<>>
    /\ \E x \in 0..(DISPLAY_WIDTH - 1), y \in 0..(DISPLAY_HEIGHT - 1),
          color \in ByteColors :
          /\ pixels = <<Pixel(x, y, color)>>
          /\ frame_buffer =
                draw_pixels([i \in 0..(DISPLAY_WIDTH * DISPLAY_HEIGHT - 1) |-> 0],
                            pixels, 1).frame_buffer
    /\ transfer_buffer = [i \in 0..(BYTES_PER_LINE * DISPLAY_HEIGHT - 1) |-> 0]
    /\ usb_out = <<>>
    /\ draws = 1
    /\ prev_flush = <<>>
    /\ call = None
    /\ app_state = AppState_new
    /\ facade = AliveFacade

SpecFrame == InitFrame /\ [][flush]_vars

\* ------------------------------------------------------------- properties
\* The message the last poll removed last (the one it decoded, if any).
LastConsumed == consumed[Len(consumed)]

ButtonVelocity(st, name) ==
    IF name \in DOMAIN st.buttons THEN st.buttons[name].velocity ELSE 0

ButtonLight(st, name) ==
    IF name \in DOMAIN st.buttons THEN st.buttons[name].light ELSE 0

ControlNames == {"Control29", "Control20", "Control21", "Control24", "Control25"}

\* The eight per-track encoders (CC 71..78); Control14, Control15 and
\* Control79 are tempo, swing and master.
TrackEncoders ==
    {"Control71", "Control72", "Control73", "Control74", "Control75",
     "Control76", "Control77", "Control78"}

\* C1: a 3-byte note message [144|128, A, V] on a mapped pad address ends
\* the poll that removes it, which returns PadPressed{C, V} exactly when the
\* status is 144 and V > 0, and PadReleased{C} otherwise.
C1_PadDecode ==
    op = "poll" =>
        \A i \in 1..Len(consumed) :
            LET m == consumed[i] IN
            (Len(m) = 3 /\ m[1] \in {144, 128} /\ m[2] \in DOMAIN note_map) =>
                /\ i = Len(consumed)
                /\ ret = IF m[1] = 144 /\ m[3] > 0
                         THEN [type |-> "PadPressed", coord |-> note_map[m[2]],
                               velocity |-> m[3]]
                         ELSE [type |-> "PadReleased", coord |-> note_map[m[2]]]

\* A note-on with velocity 0 has been polled and came back as a release.
C1_Witness ==
    /\ op = "poll"
    /\ consumed # <<>>
    /\ LastConsumed = <<144, 36, 0>>
    /\ ret.type = "PadReleased"

\* C2: a 3-byte control change [176, A, V] on a mapped button address
\* returns ButtonPressed{N, V} for every V > 0 and ButtonReleased{N} for
\* V = 0.
C2_ButtonDecode ==
    op = "poll" =>
        \A i \in 1..Len(consumed) :
            LET m == consumed[i] IN
            (Len(m) = 3 /\ m[1] = 176 /\ m[2] \in DOMAIN control_map) =>
                /\ i = Len(consumed)
                /\ ret = IF m[3] > 0
                         THEN [type |-> "ButtonPressed",
                               name |-> control_map[m[2]], velocity |-> m[3]]
                         ELSE [type |-> "ButtonReleased",
                               name |-> control_map[m[2]]]

\* A button press with a value other than 127 has been polled.
C2_Witness ==
    /\ op = "poll"
    /\ ret.type = "ButtonPressed"
    /\ ret.velocity = 126

\* C3: an EncoderTwisted event handed to the caller carries the value the
\* cache stores for that encoder after the update.
C3_EncoderValueIsStored ==
    (op = "poll" /\ ret.type = "EncoderTwisted") =>
        /\ ret.name \in DOMAIN state.encoders
        /\ ret.value = state.encoders[ret.name].value

\* An encoder event came back with a position other than the placeholder 0.
C3_Witness ==
    /\ op = "poll"
    /\ ret.type = "EncoderTwisted"
    /\ ret.value = 63

\* C4: polling [176, A, r] on encoder N adds r to N's stored value when
\* r <= 64 and -(128 - r) when r is in 65..127.
C4_EncoderDelta ==
    [][(op' = "poll" /\ ret'.type = "EncoderTwisted") =>
          LET r == consumed'[Len(consumed')][3]
              name == ret'.name
          IN  /\ r \in 0..127
              /\ ret'.raw_delta = r
              /\ state'.encoders[name].value =
                    EncoderValue(state, name)
                    + (IF r <= 64 THEN r ELSE 0 - (128 - r))]_vars

\* The boundary value 64 was polled with 100 stored and counted as +64.
C4_Witness ==
    /\ op = "poll"
    /\ ret.type = "EncoderTwisted"
    /\ ret.raw_delta = 64
    /\ ret.value = 164

\* C5: the stored value of every track encoder stays within [0,127].
C5_TrackEncoderInRange ==
    \A name \in DOMAIN state.encoders :
        name \in TrackEncoders =>
            /\ state.encoders[name].value >= 0
            /\ state.encoders[name].value <= 127

SaturatingAdd(a, d) ==
    IF d > 0 /\ a > I32Max - d THEN I32Max
    ELSE IF d < 0 /\ a < I32Min - d THEN I32Min
    ELSE a + d

\* C6: the stored encoder value is updated with a saturating add: at the
\* end of the i32 range a further delta in the same direction leaves it
\* there.
C6_SaturatingAdd ==
    [][(op' = "poll" /\ ret'.type = "EncoderTwisted") =>
          LET r == consumed'[Len(consumed')][3]
              name == ret'.name
          IN  state'.encoders[name].value =
                 SaturatingAdd(EncoderValue(state, name),
                               IF r <= 64 THEN r ELSE 0 - (128 - r))]_vars

\* C7: no pad colour and no button light changes in a step other than
\* set_pad_color and set_button_light.
C7_ColorsOnlyByCommand ==
    [][op' \notin {"set_pad_color", "set_button_light"} =>
          /\ \A y \in 0..7, x \in 0..7 :
                state'.pads[y][x].color = state.pads[y][x].color
          /\ \A name \in ControlNames :
                ButtonLight(state', name) = ButtonLight(state, name)]_vars

\* C8: a poll writes nothing to the output connection; only set_pad_color,
\* set_button_light and the startup reset do.
C8_PollSendsNothing ==
    /\ op = "poll" => midi_out = <<>>
    /\ midi_out # <<>> => op \in {"set_pad_color", "set_button_light", "new"}

\* C9: the cached velocity of every pad and button is the velocity of the
\* most recent Pressed event delivered for it, and 0 after a Released event
\* or when no event for it has been delivered.
C9_VelocityIsLastEvent ==
    /\ \A y \in 0..7, x \in 0..7 :
          state.pads[y][x].velocity =
              IF PadCoord(x, y) \in DOMAIN last_pad_velocity
              THEN last_pad_velocity[PadCoord(x, y)] ELSE 0
    /\ \A name \in ControlNames :
          ButtonVelocity(state, name) =
              IF name \in DOMAIN last_button_velocity
              THEN last_button_velocity[name] ELSE 0

\* A button has been pressed and released again while a pad is held.
C9_Witness ==
    /\ state.pads[7][0].velocity = 1
    /\ "Control29" \in DOMAIN state.buttons
    /\ state.buttons["Control29"].velocity = 0
    /\ op = "poll"
    /\ ret.type = "ButtonReleased"

\* C10: a 3-byte pitch bend [224, lsb, msb] with both bytes in 0..127
\* returns SliderMoved{msb*128 + lsb}, a value in [0,16383], and the
\* cache's slider holds that value afterwards.
C10_SliderDecode ==
    op = "poll" =>
        \A i \in 1..Len(consumed) :
            LET m == consumed[i] IN
            (Len(m) = 3 /\ m[1] = 224 /\ m[2] \in 0..127 /\ m[3] \in 0..127) =>
                /\ i = Len(consumed)
                /\ ret = [type |-> "SliderMoved", value |-> m[3] * 128 + m[2]]
                /\ ret.value \in 0..16383
                /\ state.slider = m[3] * 128 + m[2]

\* The slider's top position has been polled.
C10_Witness ==
    /\ op = "poll"
    /\ ret.type = "SliderMoved"
    /\ ret.value = 16383
    /\ state.slider = 16383

\* C11: a message of length 0, 1 or 2 (status 144, 128, 176 or 224 when
\* it has one) yields no event and leaves the cache as it is, and the poll
\* that removes it stops there only when nothing else is queued.
IsShort(m) ==
    /\ Len(m) < 3
    /\ Len(m) = 0 \/ m[1] \in {144, 128, 176, 224}

C11_ShortDropped ==
    [][op' = "poll" =>
          \A i \in 1..Len(consumed') :
              (IsShort(consumed'[i]) /\ i = Len(consumed')) =>
                  /\ ret' = None
                  /\ event_rx' = <<>>
                  /\ state' = state]_vars

\* One poll removed a two-byte note message and went on to return the pad
\* press queued behind it.
C11_Witness ==
    /\ op = "poll"
    /\ Len(consumed) = 2
    /\ consumed[1] = <<144, 36>>
    /\ ret.type = "PadPressed"

\* C12: a 3-byte message on an address that is in no table for its status,
\* or with a status other than 144, 128, 176, 224, yields no event and no
\* error, and leaves the cache as it is.
IsUnmapped(m) ==
    /\ Len(m) = 3
    /\ \/ m[1] \in {144, 128} /\ m[2] \notin DOMAIN note_map
       \/ m[1] = 176 /\ m[2] \notin (DOMAIN control_map \cup DOMAIN encoder_map)
       \/ m[1] \notin {144, 128, 176, 224}

C12_UnmappedIgnored ==
    [][op' = "poll" =>
          \A i \in 1..Len(consumed') :
              (IsUnmapped(consumed'[i]) /\ i = Len(consumed')) =>
                  /\ ret' = None
                  /\ state' = state
                  /\ midi_out' = <<>>]_vars

\* A control change on an address in neither table has been polled.
C12_Witness ==
    /\ op = "poll"
    /\ consumed = <<(<<176, 1, 127>>)>>
    /\ ret = None

\* C13: poll_event can always be taken; on an empty queue it returns None
\* and removes nothing, and otherwise it removes a prefix of what was
\* queued and leaves the rest.
C13_PollNeverBlocks ==
    /\ [](ENABLED PollLogged)
    /\ [][op' = "poll" =>
             /\ consumed' \o event_rx' = event_rx
             /\ event_rx = <<>> =>
                   (ret' = None /\ consumed' = <<>> /\ state' = state)]_vars

\* Two polls have each returned an event and a third, on the queue they
\* emptied, has returned None.
C13_Witness ==
    /\ op = "poll"
    /\ consumed = <<>>
    /\ event_rx = <<>>
    /\ ret = None
    /\ Len(delivered) = 2

\* C14: the events handed to the caller so far, followed by what the queued
\* messages decode to, are the decoded image of the messages queued so far,
\* in order (an encoder event compared without its position).
IsEvent(e) == e # None

DecodedImage(messages) ==
    SelectSeq([i \in 1..Len(messages) |-> Decode(messages[i])], IsEvent)

WithoutPosition(e) ==
    IF e.type = "EncoderTwisted" THEN [e EXCEPT !.value = 0] ELSE e

C14_DeliveredInOrder ==
    [i \in 1..Len(delivered) |-> WithoutPosition(delivered[i])]
        \o DecodedImage(event_rx)
    = DecodedImage(enq_log)

\* Two different events have been delivered by two polls.
C14_Witness ==
    /\ Len(delivered) = 2
    /\ delivered[1].type = "PadPressed"
    /\ delivered[2].type = "ButtonReleased"
    /\ enq_log = <<(<<144, 36, 1>>), (<<176, 29, 0>>)>>

\* C15: while fewer than MaxMsgs messages have been delivered the callback
\* can enqueue, whatever the queue holds and whatever the consumer has
\* done; an enqueue appends the raw message and leaves the cache and the
\* delivered events alone.
C15_EnqueueAlwaysEnabled ==
    /\ []((enqueued < MaxMsgs /\ enqueued + calls < MaxOps)
             => ENABLED EnqueueLogged)
    /\ [][op' = "enqueue" =>
             /\ state' = state
             /\ delivered' = delivered
             /\ Len(event_rx') = Len(event_rx) + 1
             /\ SubSeq(event_rx', 1, Len(event_rx)) = event_rx
             /\ event_rx'[Len(event_rx')] \in Messages]_vars

\* A message was queued behind one the consumer has not polled yet.
C15_Witness ==
    /\ op = "enqueue"
    /\ Len(event_rx) = 2

\* C16: a pixel with 0 <= x < DISPLAY_WIDTH and 0 <= y < DISPLAY_HEIGHT
\* overwrites the cell at x + y*DISPLAY_WIDTH and no other; a pixel at any
\* other coordinate changes no cell; draw_iter returns Ok and never panics.
\* Each cell ends as the colour of the last pixel of the batch that lands
\* on it, or as it was.
Hits(batch, i) ==
    {k \in 1..Len(batch) :
        /\ 0 <= batch[k].x /\ batch[k].x < DISPLAY_WIDTH
        /\ 0 <= batch[k].y /\ batch[k].y < DISPLAY_HEIGHT
        /\ batch[k].x + batch[k].y * DISPLAY_WIDTH = i}

LastHit(batch, i) ==
    CHOOSE k \in Hits(batch, i) : \A j \in Hits(batch, i) : j <= k

C16_DrawInBounds ==
    [][op' = "draw_iter" =>
          /\ ret' = [type |-> "Ok"]
          /\ DOMAIN frame_buffer' = 0..(DISPLAY_WIDTH * DISPLAY_HEIGHT - 1)
          /\ \A i \in 0..(DISPLAY_WIDTH * DISPLAY_HEIGHT - 1) :
                frame_buffer'[i] =
                    IF Hits(pixels', i) = {} THEN frame_buffer[i]
                    ELSE pixels'[LastHit(pixels', i)].color]_vars

\* A pixel one column past the right edge was dropped and the pixel in the
\* last cell, drawn in the same batch, was stored.
C16_Witness ==
    /\ op = "draw_iter"
    /\ pixels = <<Pixel(DISPLAY_WIDTH, 0, 4660),
                  Pixel(DISPLAY_WIDTH - 1, DISPLAY_HEIGHT - 1, 4660)>>
    /\ frame_buffer[DISPLAY_WIDTH * DISPLAY_HEIGHT - 1] = 4660
    /\ \A i \in 0..(DISPLAY_WIDTH * DISPLAY_HEIGHT - 2) : frame_buffer[i] = 0

\* C17: after flush has built the transfer buffer, for every row r and
\* column c, with d = r*BYTES_PER_LINE + c*2, byte d is the low byte of
\* pixel (c, r) XOR MASK[d mod 4] and byte d+1 is the high byte XOR
\* MASK[(d+1) mod 4].
C17_TransferEncoding ==
    op = "flush" =>
        \A r \in 0..(DISPLAY_HEIGHT - 1), c \in 0..(DISPLAY_WIDTH - 1) :
            LET d == r * BYTES_PER_LINE + c * 2
                cell == frame_buffer[c + r * DISPLAY_WIDTH]
            IN  /\ transfer_buffer[d] = BitXor(cell % 256, MASK[d % 4])
                /\ transfer_buffer[d + 1] =
                       BitXor(cell \div 256, MASK[(d + 1) % 4])

\* 0x1234 at pixel (0,0) is flushed as 0x34 XOR 0xE7 = 0xD3 and
\* 0x12 XOR 0xF3 = 0xE1 at offsets 0 and 1, with the last pixel white.
C17_Witness ==
    /\ op = "flush"
    /\ frame_buffer[0] = 4660
    /\ frame_buffer[DISPLAY_WIDTH * DISPLAY_HEIGHT - 1] = 65535
    /\ transfer_buffer[0] = 211
    /\ transfer_buffer[1] = 225
    /\ transfer_buffer[(DISPLAY_HEIGHT - 1) * BYTES_PER_LINE
                       + (DISPLAY_WIDTH - 1) * 2] # 0

\* C18: the transfer buffer is DISPLAY_HEIGHT lines of BYTES_PER_LINE
\* bytes, and the bytes of a line after its DISPLAY_WIDTH*2 pixel bytes
\* are the zeros the buffer was created with, whatever has been drawn.
C18_FillerUntouched ==
    /\ DOMAIN transfer_buffer = 0..(BYTES_PER_LINE * DISPLAY_HEIGHT - 1)
    /\ \A r \in 0..(DISPLAY_HEIGHT - 1) :
          \A k \in (DISPLAY_WIDTH * 2)..(BYTES_PER_LINE - 1) :
              transfer_buffer[r * BYTES_PER_LINE + k] = 0

\* A frame with the last pixel of the first and of the last line drawn,
\* the two next to a filler, has been flushed.
C18_Witness ==
    /\ op = "flush"
    /\ frame_buffer[DISPLAY_WIDTH - 1] # 0
    /\ frame_buffer[DISPLAY_WIDTH * DISPLAY_HEIGHT - 1] # 0
    /\ transfer_buffer[(DISPLAY_WIDTH - 1) * 2] # MASK[((DISPLAY_WIDTH - 1) * 2) % 4]

\* C19: a flush that returns Ok made two bulk writes, the 16-byte header
\* and then the whole transfer buffer; and in any flush a write of anything
\* but the header comes right after a successful header write.
C19_HeaderThenBody ==
    op = "flush" =>
        /\ ret = [type |-> "Ok"] =>
              /\ usb_out = <<BulkWrite(HEADER, TRUE),
                             BulkWrite(transfer_buffer, TRUE)>>
              /\ Len(HEADER) = 16
              /\ DOMAIN usb_out[2].data =
                     0..(BYTES_PER_LINE * DISPLAY_HEIGHT - 1)
        /\ \A k \in 1..Len(usb_out) :
              usb_out[k].data # HEADER =>
                  /\ k = 2
                  /\ usb_out[1] = BulkWrite(HEADER, TRUE)

\* A drawn frame has been flushed with both writes succeeding.
C19_Witness ==
    /\ op = "flush"
    /\ ret = [type |-> "Ok"]
    /\ Len(usb_out) = 2
    /\ frame_buffer[0] = 65535

\* C20: a flush in which a bulk write fails returns the error and that
\* write is its last: a failed header write is the only write, a failed
\* body write follows one successful header write, and a flush returns an
\* error only when a write failed.
C20_NoRetry ==
    op = "flush" =>
        /\ \A k \in 1..Len(usb_out) :
              ~usb_out[k].ok => (k = Len(usb_out) /\ ret = USBError)
        /\ ret # [type |-> "Ok"] =>
              \/ usb_out = <<BulkWrite(HEADER, FALSE)>>
              \/ usb_out = <<BulkWrite(HEADER, TRUE),
                             BulkWrite(transfer_buffer, FALSE)>>

\* The body write of a flush has failed after its header went through.
C20_Witness ==
    /\ op = "flush"
    /\ ret = USBError
    /\ Len(usb_out) = 2
    /\ ~usb_out[2].ok

\* C21: flush leaves the frame buffer as it is, and a flush that follows a
\* flush with no draw between them builds the same transfer buffer and
\* hands the same bytes to each bulk write both of them attempt, whether or
\* not the first one succeeded.
C21_FlushIdempotent ==
    [][op' = "flush" =>
          /\ frame_buffer' = frame_buffer
          /\ op = "flush" =>
                /\ transfer_buffer' = transfer_buffer
                /\ \A k \in 1..Len(usb_out') :
                      k <= Len(usb_out) => usb_out'[k].data = usb_out[k].data
                /\ \A k \in 1..Len(usb_out') :
                      usb_out'[k].data \in {HEADER, transfer_buffer}]_vars

\* A drawn frame was flushed twice in a row: the first flush failed on its
\* body write and the second succeeded with the same body.
C21_Witness ==
    /\ op = "flush"
    /\ frame_buffer[0] = 4660
    /\ Len(prev_flush) = 2
    /\ ~prev_flush[2].ok
    /\ ret = [type |-> "Ok"]
    /\ usb_out[2].data = prev_flush[2].data

\* C22: for every cell and every colour, masking a flushed byte with
\* MASK[d mod 4] a second time gives the cell's plain little-endian byte,
\* masking that once more gives the flushed byte back, and the two plain
\* bytes of each cell put together are the frame-buffer cell.
C22_MaskRoundTrip ==
    op = "flush" =>
        \A r \in 0..(DISPLAY_HEIGHT - 1), c \in 0..(DISPLAY_WIDTH - 1) :
            LET d == r * BYTES_PER_LINE + c * 2
                lo == mask_byte(transfer_buffer[d], d)
                hi == mask_byte(transfer_buffer[d + 1], d + 1)
            IN  /\ mask_byte(lo, d) = transfer_buffer[d]
                /\ mask_byte(hi, d + 1) = transfer_buffer[d + 1]
                /\ lo + 256 * hi = frame_buffer[c + r * DISPLAY_WIDTH]

\* The colour 0xFFCD in the last cell has been flushed.
C22_Witness ==
    /\ op = "flush"
    /\ frame_buffer[DISPLAY_WIDTH * DISPLAY_HEIGHT - 1] = 65485
    /\ transfer_buffer[(DISPLAY_HEIGHT - 1) * BYTES_PER_LINE
                       + (DISPLAY_WIDTH - 1) * 2] \notin {0, 205}

\* C23: set_pad_color on a coordinate the map has no address for, and
\* set_button_light on a name it has no address for, return Ok, send
\* nothing and leave the cache as it was.
C23_UnmappedIsNoOp ==
    [][(\/ /\ op' \in {"set_pad_color", "state.set_pad_color"}
           /\ get_note_address(call'.coord) = 0
        \/ /\ op' \in {"set_button_light", "state.set_button_light"}
           /\ get_control_address(call'.name) = 0)
       => /\ ret' = [type |-> "Ok"]
          /\ midi_out' = <<>>
          /\ state' = state]_vars

\* C24: once Push2::new has failed or the facade has been dropped, no
\* transport handle is open; a facade that is alive holds all of them, and
\* while it is being built it holds only what it has opened so far.
C24_HandlesReleased ==
    /\ facade.pc \in {"failed", "dropped"} => facade.open = {}
    /\ facade.pc = "alive" => facade.open = Handles
    /\ facade.open \subseteq Handles

\* The startup reset failed on the first button after the 64 pads were
\* reset, with every handle open, and all of them were released.
C24_Witness ==
    /\ facade.pc = "failed"
    /\ facade.failed_at = "reset_all_lights"
    /\ Len(midi_out) = 64
    /\ facade.open = {}

\* C25: the first EncoderTwisted event of an encoder returns the event's
\* decoded delta as its value; and when a button gets its first cache entry,
\* the field the operation does not set is 0: the velocity after a light
\* command, and both fields after a release.
C25_ZeroInitial ==
    [][/\ (/\ op' = "poll"
           /\ ret'.type = "EncoderTwisted"
           /\ ret'.name \notin DOMAIN state.encoders)
          => ret'.value = IF ret'.raw_delta > 64 THEN ret'.raw_delta - 128
                          ELSE ret'.raw_delta
       /\ \A name \in ControlNames :
             (name \notin DOMAIN state.buttons
                 /\ name \in DOMAIN state'.buttons)
             => /\ op' = "set_button_light"
                    => state'.buttons[name].velocity = 0
                /\ (op' = "poll" /\ ret'.type = "ButtonReleased")
                    => state'.buttons[name] = [velocity |-> 0, light |-> 0]
       /\ \A name \in ControlNames :
             name \notin DOMAIN state.buttons
             => ButtonVelocity(state, name) = 0 /\ ButtonLight(state, name) = 0
      ]_vars

\* The only message delivered so far was one counter-clockwise tick of
\* Control71, and the event returned the value -1.
C25_Witness ==
    /\ op = "poll"
    /\ enqueued = 1
    /\ ret.type = "EncoderTwisted"
    /\ ret.raw_delta = 127
    /\ ret.value = -1


\* ------------------------------------------------------ loaded button maps
\* ButtonMap::new deserializes config/button_map.ron into the three tables
\* and checks nothing about them: a file may name one pad under two
\* addresses, or list one address in two tables.
DuplicatePadMap ==
    [DefaultButtonMap EXCEPT
        !.note_map = (36 :> PadCoord(0, 7)) @@ (99 :> PadCoord(0, 7))]

SharedAddressMap ==
    [DefaultButtonMap EXCEPT
        !.control_map = (29 :> "Control29") @@ (71 :> "Control20")]

LoadableMaps == {DefaultButtonMap, DuplicatePadMap, SharedAddressMap}

InitConfig ==
    /\ button_map \in LoadableMaps
    /\ event_rx = <<>>
    /\ state = Push2State_new
    /\ \E order \in Orders(get_control_addresses) :
          midi_out = reset_all_lights(order)
    /\ ret = [type |-> "Ok"]
    /\ consumed = <<>>
    /\ op = "new"
    /\ enqueued = 0
    /\ calls = 0
    /\ last_pad_velocity = [c \in {note_map[a] : a \in DOMAIN note_map} |-> 0]
    /\ last_button_velocity =
          [n \in {control_map[a] : a \in DOMAIN control_map} |-> 0]
    /\ enq_log = <<>>
    /\ delivered = <<>>
    /\ Push2Display_new
    /\ prev_flush = <<>>
    /\ call = None
    /\ app_state = AppState_new
    /\ facade = AliveFacade

NextConfig == Enqueue \/ poll_event

SpecConfig == InitConfig /\ [][NextConfig]_vars

\* C26: the forward and inverse lookups agree: the inverse lookup of the
\* name an address maps to gives that address back, for pads and for
\* buttons, the forward lookup of the address a name maps to gives that name
\* back, and the pad named in a PadPressed event maps back to the address the
\* press arrived on.
C26_LookupsConsistent ==
    /\ \A a \in DOMAIN note_map : get_note_address(note_map[a]) = a
    /\ \A a \in DOMAIN control_map : get_control_address(control_map[a]) = a
    /\ \A x \in 0..7, y \in 0..7 :
          get_note_address(PadCoord(x, y)) # 0
          => get_note(get_note_address(PadCoord(x, y))) = PadCoord(x, y)
    /\ \A name \in ControlNames :
          get_control_address(name) # 0
          => get_control(get_control_address(name)) = name
    /\ (op = "poll" /\ ret.type = "PadPressed")
          => get_note_address(ret.coord) = LastConsumed[2]

\* C27: in the address map the facade runs with, no address is in more than
\* one of the three tables.
C27_TablesDisjoint ==
    /\ DOMAIN note_map \cap DOMAIN control_map = {}
    /\ DOMAIN note_map \cap DOMAIN encoder_map = {}
    /\ DOMAIN control_map \cap DOMAIN encoder_map = {}

\* C28: a control-change message on an address that is in both the button
\* table and the encoder table comes out of poll_event as a button event,
\* never as EncoderTwisted, and leaves every stored encoder value as it was.
C28_ButtonWins ==
    [][(/\ op' = "poll"
        /\ ret'.type # "None"
        /\ LastConsumed'[1] = CONTROL_CHANGE
        /\ LastConsumed'[2] \in DOMAIN control_map \cap DOMAIN encoder_map)
       => /\ ret'.type \in {"ButtonPressed", "ButtonReleased"}
          /\ ret'.name = control_map[LastConsumed'[2]]
          /\ state'.encoders = state.encoders]_vars

C28_Witness ==
    /\ op = "poll"
    /\ ret.type = "ButtonPressed"
    /\ LastConsumed = <<176, 71, 64>>
    /\ 71 \in DOMAIN control_map \cap DOMAIN encoder_map
    /\ ret.name = "Control20"
    /\ state.encoders = Push2State_new.encoders


\* C29: every access to the pad array has both indices below 8: no pad
\* command or pad event panics on pads[y][x], whatever coordinate the caller
\* passes, and every coordinate the map can decode lies in the grid.
C29_PadIndexInBounds ==
    /\ ret.type # "Panic"
    /\ \A a \in DOMAIN note_map : pad_index_in_bounds(note_map[a])

\* C30: the frame buffer keeps one cell per pixel and the transfer buffer
\* BYTES_PER_LINE bytes per line, every byte pair update_transfer_buffer
\* writes and every cell it reads is inside its buffer, and every cell a
\* draw writes is inside the frame buffer, so no draw panics.
C30_BuffersFixed ==
    /\ DOMAIN frame_buffer = 0..(DISPLAY_WIDTH * DISPLAY_HEIGHT - 1)
    /\ DOMAIN transfer_buffer = 0..(BYTES_PER_LINE * DISPLAY_HEIGHT - 1)
    /\ \A r \in 0..(DISPLAY_HEIGHT - 1), c \in 0..(DISPLAY_WIDTH - 1) :
          /\ dest_index(r, c) \in DOMAIN transfer_buffer
          /\ dest_index(r, c) + 1 \in DOMAIN transfer_buffer
          /\ r * DISPLAY_WIDTH + c \in DOMAIN frame_buffer
    /\ \A k \in 1..Len(pixels) :
          in_bounds(pixels[k].x, pixels[k].y)
          => pixels[k].x + pixels[k].y * DISPLAY_WIDTH \in DOMAIN frame_buffer
    /\ op \in {"draw_iter", "flush"} => ret.type # "Panic"

\* A draw that hit the last cell of the frame buffer next to pixels outside
\* the panel, after an earlier draw.
C30_Witness ==
    /\ op = "draw_iter"
    /\ draws = MaxDraws
    /\ ret.type = "Ok"
    /\ \E k \in 1..Len(pixels) :
          /\ pixels[k].x = DISPLAY_WIDTH - 1
          /\ pixels[k].y = DISPLAY_HEIGHT - 1
          /\ frame_buffer[DISPLAY_WIDTH * DISPLAY_HEIGHT - 1] = pixels[k].color
    /\ \E k \in 1..Len(pixels) : ~in_bounds(pixels[k].x, pixels[k].y)


\* C31: a poll_event call hands over at most one event: when it returns an
\* event, the messages it took are undecodable ones followed by the one that
\* decodes to the event, and everything queued behind it stays queued; when
\* it returns None it took only undecodable messages and left the queue
\* empty.
C31_OneEventPerPoll ==
    [][op' = "poll" =>
          /\ event_rx = consumed' \o event_rx'
          /\ \A j \in 1..(Len(consumed') - 1) : Decode(consumed'[j]) = None
          /\ ret' # None
                => /\ consumed' # <<>>
                   /\ WithoutPosition(ret') = Decode(LastConsumed')
                   /\ delivered' = Append(delivered, ret')
          /\ ret' = None
                => /\ event_rx' = <<>>
                   /\ \A j \in 1..Len(consumed') : Decode(consumed'[j]) = None
                   /\ delivered' = delivered]_vars

\* A poll returned the first of two queued events and left the second one
\* queued.
C31_Witness ==
    /\ op = "poll"
    /\ ret # None
    /\ Len(consumed) = 1
    /\ Len(event_rx) = 1
    /\ Decode(event_rx[1]) # None
    /\ Len(delivered) = 1


\* C32: with the consumer polling again and again, no decodable message
\* stays queued: again and again the events handed to the caller are all the
\* events the messages enqueued so far decode to, in order. The log of
\* enqueued messages and the delivered events only grow, so each enqueued
\* message that decodes to an event is delivered as that event by then.
DeliveredAt(i) ==
    LET n == Len(DecodedImage(SubSeq(enq_log, 1, i)))
    IN  /\ i <= Len(enq_log)
        /\ n >= 1
        /\ Len(delivered) >= n
        /\ WithoutPosition(delivered[n]) = Decode(enq_log[i])

AllDelivered ==
    /\ [k \in 1..Len(delivered) |-> WithoutPosition(delivered[k])]
          = DecodedImage(enq_log)
    /\ \A i \in 1..Len(enq_log) : Decode(enq_log[i]) # None => DeliveredAt(i)

C32_EventuallyDelivered == []<>AllDelivered

\* One poll took an undecodable message and the event queued behind it.
C32_Witness ==
    /\ op = "poll"
    /\ Len(enq_log) = 2
    /\ Decode(enq_log[1]) = None
    /\ consumed = enq_log
    /\ Len(delivered) = 1
    /\ DeliveredAt(2)


\* C33: a light command changes the cache exactly when its message was
\* sent: after a successful send the cached color of that pad (light of that
\* button) is the commanded value and nothing else has changed, and a
\* command whose send failed, or that sent nothing, leaves the cache as it
\* was; so each cached value is that of the last command sent successfully.
PadCommands == {"set_pad_color", "state.set_pad_color"}
ButtonCommands == {"set_button_light", "state.set_button_light"}

C33_CacheFollowsSends ==
    [][/\ op' \in PadCommands =>
             state' = IF midi_out' # <<>>
                      THEN [state EXCEPT
                              !.pads[call'.coord.y][call'.coord.x].color =
                                  call'.color]
                      ELSE state
       /\ op' \in ButtonCommands =>
             state' = IF midi_out' # <<>>
                      THEN [state EXCEPT !.buttons =
                              [or_default(@, call'.name, ButtonStateDefault)
                                 EXCEPT ![call'.name].light = call'.light]]
                      ELSE state]_vars


\* C34: a pad command for a pad mapped at address a hands the transport one
\* message, [128, a, 0] for color 0 and [144, a, color] otherwise, and a
\* button command for a button mapped at a hands it [176, a, light]; when
\* the send succeeds that one message is all that is sent, and when it fails
\* nothing is.
C34_OneMessagePerCommand ==
    [][/\ (op' \in PadCommands /\ get_note_address(call'.coord) # 0)
          => LET a == get_note_address(call'.coord)
                 message == IF call'.color = 0 THEN <<128, a, 0>>
                            ELSE <<144, a, call'.color>>
             IN  /\ ret'.type \in {"Ok", "Err"}
                 /\ midi_out' = IF ret'.type = "Ok" THEN <<message>> ELSE <<>>
       /\ (op' \in ButtonCommands /\ get_control_address(call'.name) # 0)
          => LET a == get_control_address(call'.name)
             IN  /\ ret'.type \in {"Ok", "Err"}
                 /\ midi_out' = IF ret'.type = "Ok"
                                THEN << <<176, a, call'.light>> >> ELSE <<>>
      ]_vars

\* Color 0 was sent to the pad at address 36 as a note-off.
C34_Witness ==
    /\ op = "set_pad_color"
    /\ call = [coord |-> PadCoord(0, 7), color |-> 0]
    /\ midi_out = << <<128, 36, 0>> >>
    /\ ret.type = "Ok"


\* C35: when Push2::new has returned a facade, the startup reset has sent a
\* note-off [128, a, 0] for a = 36..99 in order and then one control change
\* [176, a, 0] for each button address, and the cache is all zeros; nothing
\* is sent before the reset; and a reset whose send failed has sent only a
\* proper prefix of those messages and returned no facade.
ResetComplete(sent) ==
    /\ Len(sent) = 64 + Cardinality(DOMAIN control_map)
    /\ \A i \in 1..64 : sent[i] = <<128, 35 + i, 0>>
    /\ \A a \in DOMAIN control_map :
          \E i \in 65..Len(sent) : sent[i] = <<176, a, 0>>

ResetPrefix(sent) ==
    /\ Len(sent) < 64 + Cardinality(DOMAIN control_map)
    /\ \A i \in 1..Len(sent) :
          IF i <= 64 THEN sent[i] = <<128, 35 + i, 0>>
          ELSE /\ sent[i][1] = 176
               /\ sent[i][2] \in DOMAIN control_map
               /\ sent[i][3] = 0

C35_ResetBeforeFacade ==
    /\ (op = "new" /\ facade.pc = "alive")
          => /\ ResetComplete(midi_out)
             /\ ret = [type |-> "Ok"]
             /\ state = Push2State_new
             /\ \A x \in 0..7, y \in 0..7 : state.pads[y][x].color = 0
             /\ \A name \in ControlNames : ButtonLight(state, name) = 0
    /\ (op = "new" /\ facade.failed_at = "reset_all_lights")
          => /\ facade.pc = "failed"
             /\ ret = [type |-> "Err"]
             /\ ResetPrefix(midi_out)
    /\ (op \in {"start", "new"} /\ facade.pc \notin {"alive", "failed"})
          => midi_out = <<>>
    /\ (facade.pc = "failed" /\ facade.failed_at # "reset_all_lights")
          => midi_out = <<>>

\* Push2::new has just returned a facade after the whole reset went out.
C35_Witness ==
    /\ op = "new"
    /\ facade.pc = "alive"
    /\ Len(midi_out) = 66
    /\ midi_out[64] = <<128, 99, 0>>
    /\ midi_out[65][1] = 176


\* C36: the callback never sends into a channel whose Receiver is gone: no
\* interleaving of an incoming message with the drop of the facade makes
\* the callback's send fail and panic, because the input connection is
\* closed before the Receiver is dropped.
C36_NoSendAfterReceiverGone ==
    op = "enqueue" => (ret.type # "Panic" /\ ReceiverAlive)


\* ------------------------------------------------------ soundboard example
\* Number of messages the device sends in a soundboard run, and how many of
\* them may wait in the queue at once.
MaxEvents == 4
MaxQueued == 1

COLOR_OFF == 0
COLOR_HAS_FILE == 13
COLOR_RECORDING == 2
\* Push2Colors::AMBER, WHITE and RED_LED: non-zero palette entries.
COLOR_PLAYING == 21
COLOR_SELECTED == 119
RED_LED == 127

\* A map with two pads, the Delete button and the Tempo encoder.
SoundboardButtonMap ==
    [note_map |-> (36 :> PadCoord(0, 7)) @@ (99 :> PadCoord(7, 0)),
     control_map |-> (118 :> "Delete"),
     encoder_map |-> (14 :> "Tempo")]

\* Press and release of the two pads, a tick of the Tempo encoder and a
\* press of Delete.
SoundboardMessages ==
    { <<144, 36, 100>>, <<128, 36, 0>>, <<144, 99, 100>>, <<128, 99, 0>>,
      <<176, 14, 1>>, <<176, 118, 127>> }

PadLight(coord, color) == [kind |-> "pad", coord |-> coord, color |-> color]
ButtonLightCmd(name, light) ==
    [kind |-> "button", name |-> name, light |-> light]

\* A handler's result: the light commands it issues in order, each with the
\* AppState as it is when the command is issued, and the AppState at the
\* handler's end.
Handled(app, cmds) ==
    [stages |-> [k \in 1..Len(cmds) |-> [app |-> app, cmd |-> cmds[k]]],
     final |-> app]


\* The PadPressed arm of main's match. audio_ok is whether audio_cmd_tx.send
\* succeeds.
OnPadPressed(app, coord, audio_ok) ==
    LET address == get_note_address(coord) IN
    IF address = 0 \/ address \notin app.pad_files THEN Handled(app, <<>>)
    ELSE IF app.mode = "Playback"
    THEN IF address \in app.files
         THEN Handled(app, <<PadLight(coord, COLOR_PLAYING)>>)
         ELSE IF ~audio_ok
         THEN Handled([app EXCEPT
                         !.audio_cmds = Append(@,
                             [cmd |-> "Start", path |-> address,
                              ok |-> FALSE])],
                      <<>>)
         ELSE Handled([app EXCEPT
                         !.audio_cmds = Append(@,
                             [cmd |-> "Start", path |-> address,
                              ok |-> TRUE]),
                         !.active_recording_key = {address}],
                      <<PadLight(coord, COLOR_RECORDING)>>)
    ELSE IF address \notin app.files THEN Handled(app, <<>>)
    ELSE IF app.selected_for_edit = {address}
    THEN Handled([app EXCEPT !.selected_for_edit = {}],
                 <<PadLight(coord, COLOR_HAS_FILE)>>)
    ELSE IF app.selected_for_edit # {}
    THEN LET prev_selected_key == CHOOSE k \in app.selected_for_edit : TRUE
             selected == [app EXCEPT !.selected_for_edit = {address}]
         IN  IF get_note(prev_selected_key) # None
             THEN [stages |->
                     <<[app |-> app,
                        cmd |-> PadLight(get_note(prev_selected_key),
                                         COLOR_HAS_FILE)],
                       [app |-> selected,
                        cmd |-> PadLight(coord, COLOR_SELECTED)]>>,
                   final |-> selected]
             ELSE Handled(selected, <<PadLight(coord, COLOR_SELECTED)>>)
    ELSE Handled([app EXCEPT !.selected_for_edit = {address}],
                 <<PadLight(coord, COLOR_SELECTED)>>)

\* The PadReleased arm. The playback task it spawns touches nothing the
\* handlers read.
OnPadReleased(app, coord, audio_ok) ==
    LET address == get_note_address(coord) IN
    IF address = 0 \/ address \notin app.pad_files THEN Handled(app, <<>>)
    ELSE IF app.mode = "Playback"
    THEN IF app.active_recording_key = {address}
         THEN Handled([app EXCEPT
                         !.audio_cmds = Append(@,
                             [cmd |-> "Stop", ok |-> audio_ok]),
                         !.active_recording_key = {}],
                      <<PadLight(coord, COLOR_HAS_FILE)>>)
         ELSE IF address \in app.files
         THEN Handled(app, <<PadLight(coord, COLOR_HAS_FILE)>>)
         ELSE Handled(app, <<PadLight(coord, COLOR_OFF)>>)
    ELSE Handled(app, <<>>)

\* The ButtonPressed arm. delete_ok is whether remove_file succeeds. The
\* example's BUTTON_LIGHT_ON is GREEN_PALE, as COLOR_HAS_FILE is. The map
\* has no Master button, whose arm cycles the playback sink only.
OnButtonPressed(app, name, delete_ok) ==
    IF name = "Delete"
    THEN IF app.mode = "Edit" /\ app.selected_for_edit # {}
         THEN LET key_to_delete == CHOOSE k \in app.selected_for_edit : TRUE
                  taken == [app EXCEPT !.selected_for_edit = {}]
              IN  IF key_to_delete \in app.pad_files
                     /\ get_note(key_to_delete) # None
                  THEN IF delete_ok
                       THEN Handled([taken EXCEPT
                                       !.files = @ \ {key_to_delete}],
                                    <<PadLight(get_note(key_to_delete),
                                               COLOR_OFF)>>)
                       ELSE Handled(taken,
                                    <<PadLight(get_note(key_to_delete),
                                               COLOR_HAS_FILE)>>)
                  ELSE Handled(taken, <<>>)
         ELSE Handled(app, <<>>)
    ELSE Handled(app, <<ButtonLightCmd(name, COLOR_HAS_FILE)>>)

\* The ButtonReleased arm.
OnButtonReleased(app, name) ==
    IF ~(name = "Delete" /\ app.mode = "Edit")
    THEN Handled(app, <<ButtonLightCmd(name, 0)>>)
    ELSE Handled(app, <<>>)

\* A mode switch that leaves the selection in place.
OnEncoderTwisted_KeepSelection(app, name) ==
    IF name = "Tempo"
    THEN IF app.mode = "Playback"
         THEN Handled([app EXCEPT !.mode = "Edit"],
                      <<ButtonLightCmd("Delete", RED_LED)>>)
         ELSE Handled([app EXCEPT !.mode = "Playback"],
                      <<ButtonLightCmd("Delete", 0)>>)
    ELSE Handled(app, <<>>)

\* The EncoderTwisted arm: Tempo switches the mode; the volume and pitch
\* encoders change maps no other handler reads.
OnEncoderTwisted(app, name) ==
    IF name = "Tempo"
    THEN IF app.mode = "Playback"
         THEN Handled([app EXCEPT !.mode = "Edit"],
                      <<ButtonLightCmd("Delete", RED_LED)>>)
         ELSE LET switched == [app EXCEPT !.mode = "Playback",
                                         !.selected_for_edit = {}]
              IN  IF app.selected_for_edit # {}
                     /\ get_note(CHOOSE k \in app.selected_for_edit : TRUE)
                           # None
                  THEN Handled(switched,
                          <<PadLight(get_note(CHOOSE k \in
                                          app.selected_for_edit : TRUE),
                                     COLOR_HAS_FILE),
                            ButtonLightCmd("Delete", 0)>>)
                  ELSE Handled(switched, <<ButtonLightCmd("Delete", 0)>>)
    ELSE Handled(app, <<>>)

\* The match on the polled event in main's loop.
SoundboardHandler(app, event, audio_ok, delete_ok) ==
    IF event.type = "PadPressed"
    THEN OnPadPressed(app, event.coord, audio_ok)
    ELSE IF event.type = "PadReleased"
    THEN OnPadReleased(app, event.coord, audio_ok)
    ELSE IF event.type = "ButtonPressed"
    THEN OnButtonPressed(app, event.name, delete_ok)
    ELSE IF event.type = "ButtonReleased"
    THEN OnButtonReleased(app, event.name)
    ELSE IF event.type = "EncoderTwisted"
    THEN OnEncoderTwisted(app, event.name)
    ELSE Handled(app, <<>>)


\* Push2::set_pad_color / set_button_light applied to the cache: what the
\* cache is after a successful call and the message the call sends (none
\* for a control without an address).
LightSends(cmd) ==
    IF cmd.kind = "pad"
    THEN IF get_note_address(cmd.coord) # 0
         THEN <<PadColorMessage(get_note_address(cmd.coord), cmd.color)>>
         ELSE <<>>
    ELSE IF get_control_address(cmd.name) # 0
         THEN <<ButtonLightMessage(get_control_address(cmd.name), cmd.light)>>
         ELSE <<>>

LightCache(st, cmd) ==
    IF LightSends(cmd) = <<>> THEN st
    ELSE IF cmd.kind = "pad"
    THEN [st EXCEPT !.pads[cmd.coord.y][cmd.coord.x].color = cmd.color]
    ELSE [st EXCEPT !.buttons =
             [or_default(@, cmd.name, ButtonStateDefault)
                EXCEPT ![cmd.name].light = cmd.light]]

\* The light commands of a handler from the k-th on, each followed by ?:
\* the command numbered fails returns Err if it sends anything, and main
\* returns with the AppState as it was when the command was issued.
RECURSIVE RunStages(_, _, _, _, _, _)
RunStages(st, sent, stages, final, fails, k) ==
    IF k > Len(stages)
    THEN [state |-> st, sends |-> sent, app |-> final, failed |-> FALSE]
    ELSE IF k = fails /\ LightSends(stages[k].cmd) # <<>>
    THEN [state |-> st, sends |-> sent, app |-> stages[k].app,
          failed |-> TRUE]
    ELSE RunStages(LightCache(st, stages[k].cmd),
                   sent \o LightSends(stages[k].cmd),
                   stages, final, fails, k + 1)

\* main up to its loop: the facade is built, every mapped pad has a file
\* path, and each pad is lit by whether its file exists (y outer, x inner).
InitSoundboard ==
    /\ button_map = SoundboardButtonMap
    /\ event_rx = <<>>
    /\ \E existing \in SUBSET DOMAIN note_map :
          /\ app_state = [AppState_new EXCEPT
                            !.pad_files = DOMAIN note_map,
                            !.files = existing,
                            !.pc = "running"]
          /\ state = [Push2State_new EXCEPT
                        !.pads = [y \in 0..7 |-> [x \in 0..7 |->
                           IF get_note_address(PadCoord(x, y)) \in existing
                           THEN [velocity |-> 0, color |-> COLOR_HAS_FILE]
                           ELSE PadStateDefault]]]
          /\ midi_out =
                <<PadColorMessage(99, IF 99 \in existing
                                      THEN COLOR_HAS_FILE ELSE COLOR_OFF),
                  PadColorMessage(36, IF 36 \in existing
                                      THEN COLOR_HAS_FILE ELSE COLOR_OFF)>>
    /\ ret = [type |-> "Ok"]
    /\ consumed = <<>>
    /\ op = "main"
    /\ enqueued = 0
    /\ calls = 0
    /\ last_pad_velocity = [c \in {note_map[a] : a \in DOMAIN note_map} |-> 0]
    /\ last_button_velocity =
          [n \in {control_map[a] : a \in DOMAIN control_map} |-> 0]
    /\ enq_log = <<>>
    /\ delivered = <<>>
    /\ Push2Display_new
    /\ prev_flush = <<>>
    /\ call = None
    /\ facade = AliveFacade

\* A pad is held when the last message the device sent for it is a press.
\* The device sends a press for a pad that is up and a release for one that
\* is held.
PadHeld(address) ==
    \E i \in 1..Len(enq_log) :
        /\ enq_log[i][1] = NOTE_ON
        /\ enq_log[i][2] = address
        /\ \A j \in (i + 1)..Len(enq_log) : enq_log[j][2] # address

\* The input callback while the soundboard runs.
SoundboardEnqueue ==
    /\ enqueued < MaxEvents
    /\ Len(event_rx) < MaxQueued
    /\ \E message \in SoundboardMessages :
          /\ message[1] = NOTE_ON => ~PadHeld(message[2])
          /\ message[1] = NOTE_OFF => PadHeld(message[2])
          /\ event_rx' = tx_send(event_rx, message)
          /\ enq_log' = Append(enq_log, message)
    /\ enqueued' = enqueued + 1
    /\ UNCHANGED <<state, midi_out, ret, consumed, op, calls,
                   last_pad_velocity, last_button_velocity, display, facade,
                   button_map, app_state, delivered, prev_flush, call>>

\* while let Some(event) = push2.poll_event()
SoundboardPoll ==
    /\ app_state.pc = "running"
    /\ ~(op = "poll" /\ ret # None)
    /\ poll_event

\* The body of the while-let for the polled event.
SoundboardHandle ==
    /\ app_state.pc = "running"
    /\ op = "poll"
    /\ ret # None
    /\ \E delete_ok \in BOOLEAN, fails \in 0..2 :
       \E h \in {SoundboardHandler(app_state, ret,
                                   app_state.capture = "running",
                                   delete_ok)} :
       \E run \in {RunStages(state, <<>>, h.stages, h.final, fails, 1)} :
          /\ app_state' = IF run.failed THEN [run.app EXCEPT !.pc = "exited"]
                          ELSE run.app
          /\ state' = run.state
          /\ midi_out' = run.sends
          /\ ret' = IF run.failed THEN [type |-> "Err"] ELSE [type |-> "Ok"]
    /\ op' = "handle"
    /\ consumed' = <<>>
    /\ UNCHANGED <<event_rx, enqueued, calls, last_pad_velocity,
                   last_button_velocity, display, facade, button_map,
                   history>>

\* The capture thread writes the file of the recording it was started on.
CaptureWritesFile ==
    /\ \E i \in 1..Len(app_state.audio_cmds) :
          /\ app_state.capture = "running"
          /\ app_state.audio_cmds[i].cmd = "Start"
          /\ app_state.audio_cmds[i].ok
          /\ app_state.audio_cmds[i].path \notin app_state.files
          /\ app_state' = [app_state EXCEPT
                             !.files = @ \cup {app_state.audio_cmds[i].path}]
    /\ UNCHANGED <<event_rx, state, midi_out, ret, consumed, op, enqueued,
                   calls, last_pad_velocity, last_button_velocity, display,
                   facade, button_map, history>>

\* run_capture_loop returns: the receiving end of the command channel is
\* dropped and every later send fails.
CaptureExits ==
    /\ app_state.capture = "running"
    /\ app_state' = [app_state EXCEPT !.capture = "exited"]
    /\ UNCHANGED <<event_rx, state, midi_out, ret, consumed, op, enqueued,
                   calls, last_pad_velocity, last_button_velocity, display,
                   facade, button_map, history>>

NextSoundboard ==
    \/ SoundboardEnqueue
    \/ SoundboardPoll
    \/ SoundboardHandle
    \/ CaptureWritesFile
    \/ CaptureExits

SpecSoundboard == InitSoundboard /\ [][NextSoundboard]_vars


\* C37: in the soundboard, whenever the mode is Playback no pad is selected
\* for edit.
C37_SelectedOnlyInEdit ==
    app_state.mode = "Playback" => app_state.selected_for_edit = {}

\* The Tempo encoder has just switched from Edit to Playback and deselected
\* the pad at address 36.
C37_Witness ==
    /\ op = "handle"
    /\ app_state.mode = "Playback"
    /\ app_state.selected_for_edit = {}
    /\ midi_out = <<PadColorMessage(36, COLOR_HAS_FILE),
                    ButtonLightMessage(118, 0)>>

\* C38: when the release of the pad whose recording is active is handled,
\* a Stop is sent to the capture thread and active_recording_key becomes
\* None, whatever was handled between the press and the release.
C38_ReleaseStopsRecording ==
    [][(/\ op' = "handle"
        /\ ret.type = "PadReleased"
        /\ app_state.active_recording_key = {get_note_address(ret.coord)})
       => /\ app_state'.active_recording_key = {}
          /\ Len(app_state'.audio_cmds) = Len(app_state.audio_cmds) + 1
          /\ app_state'.audio_cmds[Len(app_state'.audio_cmds)].cmd = "Stop"
      ]_vars

\* C39: the commands that reached the capture thread alternate Start, Stop,
\* Start, ...: a Start is sent only when no recording is active and a Stop
\* only when one is.
Received(cmds) == SelectSeq(cmds, LAMBDA c : c.ok)

C39_StartStopAlternate ==
    /\ \A i \in 1..Len(Received(app_state.audio_cmds)) :
          Received(app_state.audio_cmds)[i].cmd =
             IF i % 2 = 1 THEN "Start" ELSE "Stop"
    /\ app_state.active_recording_key # {}
          <=> (/\ Received(app_state.audio_cmds) # <<>>
               /\ Received(app_state.audio_cmds)
                     [Len(Received(app_state.audio_cmds))].cmd = "Start")

====
